---- MODULE Spec2Model ----
(***************************************************************************)
(* A model of the trading bot's market-structure analysis (SMCAnalyzer),   *)
(* position sizing, performance metrics and backtest simulation, written   *)
(* from the TypeScript sources.  Array indices are kept 0-based as in the  *)
(* source; At(c, i) is candles[i].                                         *)
(***************************************************************************)
EXTENDS Integers, Sequences, FiniteSets, TLC

VARIABLES
    candles,        \* the OHLCV array handed to SMCAnalyzer.analyze
    analysis,       \* the SMCAnalysis returned for `candles`
    prevMitigated,  \* zones reported mitigated by analyses of shorter prefixes
    sizing,         \* one position-sizing call: its inputs and its result
    metrics,        \* one metrics computation: the trade list and its result
    backtest,       \* the fields of a BacktestEngine during one run
    portfolio,      \* a Portfolio driven by a TradeSimulator
    replay,         \* the candle loop of a backtest run over a given array
    evaluation,     \* one StrategyEngine evaluation: its inputs and its signal
    alignment       \* one multi-timeframe alignment: the two trends, the result

smcVars == <<candles, analysis, prevMitigated>>

strategyVars == <<replay, evaluation, alignment>>

otherThanSmc == <<sizing, metrics, backtest, portfolio, strategyVars>>

otherThanSizing == <<smcVars, metrics, backtest, portfolio, strategyVars>>

otherThanMetrics == <<smcVars, sizing, backtest, portfolio, strategyVars>>

otherThanBacktest == <<smcVars, sizing, metrics, portfolio, strategyVars>>

otherThanPortfolio == <<smcVars, sizing, metrics, backtest, strategyVars>>

otherThanReplay == <<smcVars, sizing, metrics, backtest, portfolio, evaluation, alignment>>

otherThanEvaluation == <<smcVars, sizing, metrics, backtest, portfolio, replay, alignment>>

otherThanAlignment == <<smcVars, sizing, metrics, backtest, portfolio, replay, evaluation>>

vars ==
    <<candles, analysis, prevMitigated, sizing, metrics, backtest, portfolio,
      replay, evaluation, alignment>>

(***************************************************************************)
(* Bounds of the model and constants of the program.                       *)
(***************************************************************************)
MaxCandles == 8

Left == 2
Right == 2
SearchLimit == 50
MitigationBuffer == 5
FvgBuffer == 2

(***************************************************************************)
(* Candles.  A candle is [open, high, low, close]; its timestamp is its    *)
(* index (timestamps increase strictly along the array).                   *)
(***************************************************************************)
Candle(o, h, l, c) == [open |-> o, high |-> h, low |-> l, close |-> c]

CandleShapes ==
    { Candle(3, 4, 3, 4), Candle(3, 3, 2, 3), Candle(3, 3, 1, 1), Candle(2, 2, 2, 2),
      Candle(2, 4, 1, 3) }

\* candles for the structure classifier: a flat one, one with wicks on both
\* sides, one that falls below the low of the others, and one that pierces
\* the highs and the lows of the others and closes at its low
ClassifierShapes ==
    { Candle(2, 2, 2, 2), Candle(2, 4, 1, 3), Candle(2, 2, 0, 0), Candle(2, 5, 0, 0) }

At(c, i) == c[i + 1]

Max(a, b) == IF a >= b THEN a ELSE b
Min(a, b) == IF a <= b THEN a ELSE b

(***************************************************************************)
(* SMCAnalyzer.findSwingHighs / findSwingLows                              *)
(***************************************************************************)
SwingPoint(t, p, i) == [type |-> t, price |-> p, index |-> i]

NoSwing == [type |-> "NONE", price |-> 0, index |-> -1]

IsSwingHighLeftLoose(c, i, left, right) ==
    /\ \A j \in 1..left : ~(At(c, i - j).high > At(c, i).high)
    /\ \A j \in 1..right : ~(At(c, i + j).high > At(c, i).high)

IsSwingHigh(c, i, left, right) ==
    /\ \A j \in 1..left : ~(At(c, i - j).high >= At(c, i).high)
    /\ \A j \in 1..right : ~(At(c, i + j).high > At(c, i).high)

IsSwingLow(c, i, left, right) ==
    /\ \A j \in 1..left : ~(At(c, i - j).low <= At(c, i).low)
    /\ \A j \in 1..right : ~(At(c, i + j).low < At(c, i).low)

RECURSIVE FindSwingHighsFrom(_, _, _, _)
FindSwingHighsFrom(c, i, left, right) ==
    IF i < Len(c) - right
    THEN (IF IsSwingHigh(c, i, left, right)
          THEN <<SwingPoint("HIGH", At(c, i).high, i)>>
          ELSE <<>>) \o FindSwingHighsFrom(c, i + 1, left, right)
    ELSE <<>>

\* swing lows reported as soon as their candle is there, tested against the
\* candles to their right that exist
FindSwingLowsUnconfirmed(c, i, left, right) ==
    LET isLow(k) == /\ \A j \in 1..left : ~(At(c, k - j).low <= At(c, k).low)
                    /\ \A j \in 1..right : k + j < Len(c) => ~(At(c, k + j).low < At(c, k).low)
        all == [k \in 1..Len(c) |-> SwingPoint("LOW", c[k].low, k - 1)]
    IN  SelectSeq(all, LAMBDA s : s.index >= i /\ isLow(s.index))

RECURSIVE FindSwingLowsFrom(_, _, _, _)
FindSwingLowsFrom(c, i, left, right) ==
    IF i < Len(c) - right
    THEN (IF IsSwingLow(c, i, left, right)
          THEN <<SwingPoint("LOW", At(c, i).low, i)>>
          ELSE <<>>) \o FindSwingLowsFrom(c, i + 1, left, right)
    ELSE <<>>

FindSwingHighs(c) == FindSwingHighsFrom(c, Left, Left, Right)

FindSwingLows(c) == FindSwingLowsFrom(c, Left, Left, Right)

(***************************************************************************)
(* SMCAnalyzer.findStructureBreaks.  The loop state is the record          *)
(* [lastHigh, lastLow, trend, currentHighIndex, currentLowIndex, breaks];  *)
(* `scan` records, for every candle index, the active swings the loop body *)
(* holds after its cursor update (a history of the loop's locals).         *)
(***************************************************************************)
StructureBreak(t, d, i, p, conf, s) ==
    [type |-> t, direction |-> d, index |-> i, price |-> p,
     isConfirmed |-> conf, swingIndex |-> s]

RECURSIVE AdvanceCursor(_, _, _, _)
AdvanceCursor(swings, cur, last, i) ==
    IF cur < Len(swings) /\ swings[cur + 1].index < i
    THEN AdvanceCursor(swings, cur + 1, swings[cur + 1], i)
    ELSE [last |-> last, cur |-> cur]

\* a loop that starts in a BEARISH trend
ScanInitBearish ==
    [lastHigh |-> NoSwing, lastLow |-> NoSwing, trend |-> "BEARISH",
     currentHighIndex |-> 0, currentLowIndex |-> 0,
     breaks |-> <<>>, scan |-> <<>>]

ScanInit ==
    [lastHigh |-> NoSwing, lastLow |-> NoSwing, trend |-> "BULLISH",
     currentHighIndex |-> 0, currentLowIndex |-> 0,
     breaks |-> <<>>, scan |-> <<>>]

\* the active swing after a break of it: cleared by a confirmed break (BOS,
\* CHOCH), kept by a SWEEP
AfterBreakCleared(swing, isConfirmed) == NoSwing

AfterBreakKept(swing, isConfirmed) == swing

AfterBreak(swing, isConfirmed) == IF isConfirmed THEN NoSwing ELSE swing

\* the classification of candle i: the break pushed (<< >> if none) and the
\* loop variables after it
Classified(breaks, trend, lastHigh, lastLow) ==
    [breaks |-> breaks, trend |-> trend, lastHigh |-> lastHigh, lastLow |-> lastLow]

Classification(trend, candle, lastHigh, lastLow, i) ==
    LET upClose == candle.close > lastHigh.price
        downClose == candle.close < lastLow.price
    IN  IF trend = "BULLISH"
        THEN IF candle.high > lastHigh.price
             THEN Classified(<< StructureBreak(IF upClose THEN "BOS" ELSE "SWEEP", "BULLISH",
                                               i, lastHigh.price, upClose, lastHigh.index) >>,
                             trend, AfterBreak(lastHigh, upClose), lastLow)
             ELSE IF candle.low < lastLow.price
             THEN Classified(<< StructureBreak(IF downClose THEN "CHOCH" ELSE "SWEEP",
                                               "BEARISH", i, lastLow.price, downClose,
                                               lastLow.index) >>,
                             IF downClose THEN "BEARISH" ELSE trend,
                             lastHigh, AfterBreak(lastLow, downClose))
             ELSE Classified(<< >>, trend, lastHigh, lastLow)
        ELSE IF candle.low < lastLow.price
             THEN Classified(<< StructureBreak(IF downClose THEN "BOS" ELSE "SWEEP", "BEARISH",
                                               i, lastLow.price, downClose, lastLow.index) >>,
                             trend, lastHigh, AfterBreak(lastLow, downClose))
             ELSE IF candle.high > lastHigh.price
             THEN Classified(<< StructureBreak(IF upClose THEN "CHOCH" ELSE "SWEEP",
                                               "BULLISH", i, lastHigh.price, upClose,
                                               lastHigh.index) >>,
                             IF upClose THEN "BULLISH" ELSE trend,
                             AfterBreak(lastHigh, upClose), lastLow)
             ELSE Classified(<< >>, trend, lastHigh, lastLow)

\* one iteration of the loop; the entry appended to `scan` holds what the
\* iteration compared the candle with and what it left behind
ClassifyCandle(st, c, highs, lows, i) ==
    LET candle == At(c, i)
        h == AdvanceCursor(highs, st.currentHighIndex, st.lastHigh, i)
        l == AdvanceCursor(lows, st.currentLowIndex, st.lastLow, i)
        skip == h.last = NoSwing \/ l.last = NoSwing
        out == IF skip THEN Classified(<< >>, st.trend, h.last, l.last)
               ELSE Classification(st.trend, candle, h.last, l.last, i)
    IN  [st EXCEPT !.lastHigh = out.lastHigh, !.lastLow = out.lastLow,
                   !.trend = out.trend,
                   !.currentHighIndex = h.cur,
                   !.currentLowIndex = l.cur,
                   !.breaks = @ \o out.breaks,
                   !.scan = Append(@, [index |-> i, lastHigh |-> h.last,
                                       lastLow |-> l.last, trend |-> st.trend,
                                       compared |-> ~skip, candle |-> candle,
                                       breaks |-> out.breaks, trendAfter |-> out.trend,
                                       lastHighAfter |-> out.lastHigh,
                                       lastLowAfter |-> out.lastLow])]

\* the loop over the candles; the scan holds one entry per candle processed
RECURSIVE ScanFrom(_, _, _, _, _)
ScanFrom(st, c, highs, lows, i) ==
    IF i < Len(c) /\ Len(st.scan) = i
    THEN ScanFrom(ClassifyCandle(st, c, highs, lows, i), c, highs, lows, i + 1)
    ELSE st

FindStructureBreaks(c, highs, lows) == ScanFrom(ScanInit, c, highs, lows, 0)

(***************************************************************************)
(* findStructureBreaks of the SMCAnalyzer without SWEEP events             *)
(* (notification/TelegramNotifier.ts lines 191-296): only closes beyond    *)
(* the active swing are tested, every break is a BOS or a CHOCH.           *)
(***************************************************************************)
ClassificationCloseOnly(trend, candle, lastHigh, lastLow, i) ==
    IF trend = "BULLISH"
    THEN IF candle.close > lastHigh.price
         THEN Classified(<< StructureBreak("BOS", "BULLISH", i, lastHigh.price, TRUE,
                                           lastHigh.index) >>,
                         trend, NoSwing, lastLow)
         ELSE IF candle.close < lastLow.price
         THEN Classified(<< StructureBreak("CHOCH", "BEARISH", i, lastLow.price, TRUE,
                                           lastLow.index) >>,
                         "BEARISH", lastHigh, NoSwing)
         ELSE Classified(<< >>, trend, lastHigh, lastLow)
    ELSE IF candle.close < lastLow.price
         THEN Classified(<< StructureBreak("BOS", "BEARISH", i, lastLow.price, TRUE,
                                           lastLow.index) >>,
                         trend, lastHigh, NoSwing)
         ELSE IF candle.close > lastHigh.price
         THEN Classified(<< StructureBreak("CHOCH", "BULLISH", i, lastHigh.price, TRUE,
                                           lastHigh.index) >>,
                         "BULLISH", NoSwing, lastLow)
         ELSE Classified(<< >>, trend, lastHigh, lastLow)

RECURSIVE ScanCloseOnlyFrom(_, _, _, _, _)
ScanCloseOnlyFrom(st, c, highs, lows, i) ==
    IF i >= Len(c) THEN st
    ELSE LET h == AdvanceCursor(highs, st.currentHighIndex, st.lastHigh, i)
             l == AdvanceCursor(lows, st.currentLowIndex, st.lastLow, i)
             out == IF h.last = NoSwing \/ l.last = NoSwing
                    THEN Classified(<< >>, st.trend, h.last, l.last)
                    ELSE ClassificationCloseOnly(st.trend, At(c, i), h.last, l.last, i)
         IN  ScanCloseOnlyFrom([st EXCEPT !.lastHigh = out.lastHigh,
                                          !.lastLow = out.lastLow, !.trend = out.trend,
                                          !.currentHighIndex = h.cur,
                                          !.currentLowIndex = l.cur,
                                          !.breaks = @ \o out.breaks],
                               c, highs, lows, i + 1)

FindStructureBreaksCloseOnly(c, highs, lows) ==
    ScanCloseOnlyFrom(ScanInit, c, highs, lows, 0).breaks

\* the structure this analyzer derives: the direction of the last break
StructureOfLast(breaks) ==
    IF Len(breaks) > 0 THEN breaks[Len(breaks)].direction ELSE "RANGING"

(***************************************************************************)
(* SMCAnalyzer.findOrderBlocks                                             *)
(***************************************************************************)
Zone(t, top, bottom, i) ==
    [type |-> t, top |-> top, bottom |-> bottom, index |-> i,
     mitigated |-> FALSE, mitigationIndex |-> -1]

RECURSIVE SearchOrderBlock(_, _, _, _)
SearchOrderBlock(c, bk, i, lo) ==
    IF i < lo THEN <<>>
    ELSE LET candle == At(c, i)
         IN  IF bk.direction = "BULLISH"
             THEN IF candle.close < candle.open
                  THEN <<Zone("BULLISH", candle.high, candle.low, i)>>
                  ELSE SearchOrderBlock(c, bk, i - 1, lo)
             ELSE IF candle.close > candle.open
                  THEN <<Zone("BEARISH", candle.high, candle.low, i)>>
                  ELSE SearchOrderBlock(c, bk, i - 1, lo)

RECURSIVE CollectOrderBlocks(_, _, _)
CollectOrderBlocks(c, breaks, k) ==
    IF k > Len(breaks) THEN <<>>
    ELSE SearchOrderBlock(c, breaks[k], breaks[k].index - 1,
                          Max(0, breaks[k].index - SearchLimit))
         \o CollectOrderBlocks(c, breaks, k + 1)

ZoneTouched(z, candle) ==
    IF z.type = "BULLISH" THEN candle.low <= z.top ELSE candle.high >= z.bottom

RECURSIVE MitigateFrom(_, _, _)
MitigateFrom(c, z, i) ==
    IF i >= Len(c) \/ z.mitigated THEN z
    ELSE IF ZoneTouched(z, At(c, i))
         THEN MitigateFrom(c, [z EXCEPT !.mitigated = TRUE, !.mitigationIndex = i], i + 1)
         ELSE MitigateFrom(c, z, i + 1)

MitigateLastOnly(c, z, start) ==
    IF Len(c) - 1 >= start /\ ZoneTouched(z, At(c, Len(c) - 1))
    THEN [z EXCEPT !.mitigated = TRUE, !.mitigationIndex = Len(c) - 1]
    ELSE z

Mitigate(c, z, start) == MitigateFrom(c, z, start)

FindOrderBlocks(c, breaks) ==
    LET found == CollectOrderBlocks(c, breaks, 1)
    IN  [k \in 1..Len(found) |->
            Mitigate(c, found[k], found[k].index + MitigationBuffer)]

(***************************************************************************)
(* SMCAnalyzer.findFVGs                                                    *)
(***************************************************************************)
RECURSIVE CollectFVGs(_, _)
CollectFVGs(c, i) ==
    IF i < Len(c) - 1
    THEN LET first == At(c, i - 1)
             third == At(c, i + 1)
         IN  (IF third.low > first.high
              THEN <<Zone("BULLISH", third.low, first.high, i)>> ELSE <<>>)
             \o (IF third.high < first.low
                 THEN <<Zone("BEARISH", first.low, third.high, i)>> ELSE <<>>)
             \o CollectFVGs(c, i + 1)
    ELSE <<>>

FindFVGs(c) ==
    LET found == CollectFVGs(c, 1)
    IN  [k \in 1..Len(found) |-> Mitigate(c, found[k], found[k].index + FvgBuffer)]

(***************************************************************************)
(* SMCAnalyzer.analyze                                                     *)
(***************************************************************************)
AllBreaks(breaks) == breaks

ConfirmedBreaks(breaks) == SelectSeq(breaks, LAMBDA b : b.type # "SWEEP")

\* the structure analyze derives from a break sequence
StructureOf(breaks) ==
    LET confirmedBreaks == ConfirmedBreaks(breaks)
    IN  IF Len(confirmedBreaks) > 0
        THEN confirmedBreaks[Len(confirmedBreaks)].direction ELSE "RANGING"

\* analyze of the SMCAnalyzer without SWEEP events: breaks and structure
AnalyzeCloseOnly(c, swingHighs, swingLows) ==
    LET breaks == FindStructureBreaksCloseOnly(c, swingHighs, swingLows)
    IN  [breaks |-> breaks, structure |-> StructureOfLast(breaks)]

Analyze(c) ==
    LET swingHighs == FindSwingHighs(c)
        swingLows == FindSwingLows(c)
        st == FindStructureBreaks(c, swingHighs, swingLows)
    IN  [structure |-> StructureOf(st.breaks),
         swingHighs |-> swingHighs,
         swingLows |-> swingLows,
         breaks |-> st.breaks,
         orderBlocks |-> FindOrderBlocks(c, st.breaks),
         fvgs |-> FindFVGs(c),
         scan |-> st.scan]

\* both SMCAnalyzer classes of the repository on the same candles: the
\* result of the one with SWEEP events, and under closeOnly the result of
\* the one without
AnalyzeBoth(c) ==
    Analyze(c) @@ [closeOnly |-> AnalyzeCloseOnly(c, FindSwingHighs(c), FindSwingLows(c))]

SeqRange(s) == { s[k] : k \in 1..Len(s) }

ZoneKey(family, z) == <<family, z.type, z.index>>

MitigatedKeys(a) ==
    { ZoneKey("OB", z) : z \in { y \in SeqRange(a.orderBlocks) : y.mitigated } }
    \cup { ZoneKey("FVG", z) : z \in { y \in SeqRange(a.fvgs) : y.mitigated } }

(***************************************************************************)
(* Analysis of a growing candle array: every new candle is appended and    *)
(* analyze() runs on the whole array again (BacktestEngine.runBacktest     *)
(* evaluates candles.slice(0, i + 1) for every i).                         *)
(***************************************************************************)
(***************************************************************************)
(* Fixed-point arithmetic.  Prices and money amounts are integers in units *)
(* of 10^-6, quantities in units of 10^-4 (the four decimals kept by       *)
(* quantity.toFixed(4)) and percentages in units of 10^-4 percent, so that *)
(* a percentage p of an amount a is a * p / 10^6.  MulDivMod(a, b, d) is   *)
(* the quotient and remainder of a * b by d, computed without forming the  *)
(* product.                                                                *)
(***************************************************************************)
Abs(x) == IF x < 0 THEN -x ELSE x

Dollars(n) == n * 1000000

Cents(n) == n * 10000

Percent(n) == n * 10000

Clamp(x, lo, hi) == Min(Max(x, lo), hi)

RECURSIVE MulDivMod(_, _, _)
MulDivMod(a, b, d) ==
    IF a = 0 \/ b = 0 THEN [q |-> 0, r |-> 0]
    ELSE LET h == MulDivMod(a \div 2, b, d)
             t == 2 * h.r + (a % 2) * (b % d)
         IN  [q |-> 2 * h.q + (a % 2) * (b \div d) + t \div d, r |-> t % d]

MulDiv(a, b, d) == MulDivMod(a, b, d).q

MulDivCeil(a, b, d) ==
    LET m == MulDivMod(a, b, d) IN m.q + (IF m.r > 0 THEN 1 ELSE 0)

MulDivRound(a, b, d) ==
    LET m == MulDivMod(a, b, d) IN m.q + (IF 2 * m.r >= d THEN 1 ELSE 0)

ToFixed2(x) == ((x + 5000) \div 10000) * 10000

ToFixed4(q100) == (q100 + 50) \div 100

(***************************************************************************)
(* PositionSizer (the variant with the leverage cap).                      *)
(***************************************************************************)
NewPositionSizer(accountBalance, riskPercentage, maxLeverage) ==
    [accountBalance |-> IF accountBalance = 0 THEN Dollars(300) ELSE accountBalance,
     baseRiskPercentage |-> IF riskPercentage = 0 THEN Percent(1) ELSE riskPercentage,
     maxRiskPercentage |-> Percent(3),
     minRiskPercentage |-> 2500,
     maxDailyLoss |-> 5,
     maxMonthlyLoss |-> 15,
     maxConsecutiveLosses |-> 3,
     maxOpenPositions |-> 3,
     maxLeverage |-> IF maxLeverage = 0 THEN 10 ELSE maxLeverage,
     currentBalance |-> IF accountBalance = 0 THEN Dollars(300) ELSE accountBalance,
     dailyLoss |-> 0,
     monthlyLoss |-> 0,
     consecutiveLosses |-> 0,
     openPositionsCount |-> 0]

RiskAmountOf(balance, percentage) == MulDiv(balance, percentage, 1000000)

QuantityOf(riskAmount, riskPerPoint) ==
    IF riskPerPoint = 0 THEN 0 ELSE MulDivRound(riskAmount, 10000, riskPerPoint)

FixedPercentageRisk(s, entryPrice, stopLossPrice) ==
    LET riskAmount == RiskAmountOf(s.currentBalance, s.baseRiskPercentage)
    IN  [quantity |-> QuantityOf(riskAmount, Abs(entryPrice - stopLossPrice)),
         riskAmount |-> ToFixed2(riskAmount)]

KellyCriterion(s, winProbability, rewardPerPoint, riskPerPoint) ==
    LET kellyHalf ==
            IF riskPerPoint = 0 \/ rewardPerPoint = 0 THEN 0
            ELSE Max(0, 5000 * winProbability
                        - MulDivCeil(riskPerPoint, 5000 * (100 - winProbability),
                                     rewardPerPoint))
        finalFraction == Min(kellyHalf, s.maxRiskPercentage)
    IN  [riskAmount |-> ToFixed2(RiskAmountOf(s.currentBalance, finalFraction))]

KellyCriterionWithPrice(s, entryPrice, stopLossPrice, takeProfitPrice, winProbability) ==
    LET risk == Abs(entryPrice - stopLossPrice)
        reward == Abs(takeProfitPrice - entryPrice)
        kelly == KellyCriterion(s, winProbability, reward, risk)
    IN  [quantity |-> QuantityOf(kelly.riskAmount, risk),
         riskAmount |-> kelly.riskAmount]

VolatilityAdjustedSizing(s, entryPrice, stopLossPrice, atr, averageAtr) ==
    LET adjusted == IF averageAtr = 0 THEN s.baseRiskPercentage
                    ELSE IF atr = 0 THEN s.maxRiskPercentage
                    ELSE MulDiv(s.baseRiskPercentage, averageAtr, atr)
        adjustedRiskPercent == Clamp(adjusted, s.minRiskPercentage, s.maxRiskPercentage)
        riskAmount == RiskAmountOf(s.currentBalance, adjustedRiskPercent)
    IN  [quantity |-> QuantityOf(riskAmount, Abs(entryPrice - stopLossPrice)),
         riskAmount |-> ToFixed2(riskAmount)]

GradeMultiplier(tradeGrade) ==
    CASE tradeGrade = "A+" -> 150
      [] tradeGrade = "A" -> 125
      [] tradeGrade = "B+" -> 100
      [] tradeGrade = "B" -> 75
      [] tradeGrade = "C" -> 50
      [] tradeGrade = "D" -> 25
      [] OTHER -> 75

ConfidenceGradedSizing(s, entryPrice, stopLossPrice, tradeGrade, confidenceScore) ==
    LET adjustedRiskPercent ==
            (s.baseRiskPercentage * GradeMultiplier(tradeGrade) * (100 + confidenceScore))
                \div 20000
        cappedRiskPercent ==
            Clamp(adjustedRiskPercent, s.minRiskPercentage, s.maxRiskPercentage)
        riskAmount == RiskAmountOf(s.currentBalance, cappedRiskPercent)
    IN  [quantity |-> QuantityOf(riskAmount, Abs(entryPrice - stopLossPrice)),
         riskAmount |-> ToFixed2(riskAmount)]

MomentumMultiplier(momentumScore) ==
    IF momentumScore >= 90 THEN 150
    ELSE IF momentumScore >= 70 THEN 125
    ELSE IF momentumScore >= 50 THEN 100
    ELSE IF momentumScore >= 30 THEN 60
    ELSE 30

MomentumBasedSizing(s, entryPrice, stopLossPrice, momentumScore) ==
    LET adjustedRiskPercent ==
            (s.baseRiskPercentage * MomentumMultiplier(momentumScore)) \div 100
        cappedRiskPercent ==
            Clamp(adjustedRiskPercent, s.minRiskPercentage, s.maxRiskPercentage)
        riskAmount == RiskAmountOf(s.currentBalance, cappedRiskPercent)
    IN  [quantity |-> QuantityOf(riskAmount, Abs(entryPrice - stopLossPrice)),
         riskAmount |-> ToFixed2(riskAmount)]

\* a gate that tests the daily-loss cap alone
CanOpenPositionDailyOnly(s, riskAmount) ==
    LET failed == IF s.dailyLoss + riskAmount <= (s.accountBalance \div 100) * s.maxDailyLoss
                  THEN {} ELSE {"belowMaxDailyLoss"}
    IN  [canOpen |-> failed = {}, failureReasons |-> failed]

\* failureReasons holds the keys of `checks` whose value is false; the keys
\* of an object are distinct, so the list is kept as a set
CanOpenPosition(s, riskAmount) ==
    LET failed ==
            (IF s.dailyLoss + riskAmount <= (s.accountBalance \div 100) * s.maxDailyLoss
             THEN {} ELSE {"belowMaxDailyLoss"})
            \cup (IF s.monthlyLoss + riskAmount
                        <= (s.accountBalance \div 100) * s.maxMonthlyLoss
                  THEN {} ELSE {"belowMaxMonthlyLoss"})
            \cup (IF s.openPositionsCount < s.maxOpenPositions
                  THEN {} ELSE {"belowMaxOpenPositions"})
            \cup (IF s.consecutiveLosses < s.maxConsecutiveLosses
                  THEN {} ELSE {"notTooManyConsecutiveLosses"})
            \cup (IF riskAmount <= s.currentBalance \div 20
                  THEN {} ELSE {"sufficientCapital"})
    IN  [canOpen |-> failed = {}, failureReasons |-> failed]

SizingParams(entryPrice, stopLossPrice, takeProfitPrice, atr, averageAtr, tradeGrade, confidenceScore, momentumScore) ==
    [entryPrice |-> entryPrice, stopLossPrice |-> stopLossPrice,
     takeProfitPrice |-> takeProfitPrice, atr |-> atr, averageAtr |-> averageAtr,
     winProbability |-> 55, tradeGrade |-> tradeGrade,
     confidenceScore |-> confidenceScore, momentumScore |-> momentumScore]

SizingError ==
    [error |-> TRUE,
     recommendation |-> [quantity |-> 0, isLeverageCapped |-> FALSE,
                         stopLoss |-> 0, riskAmount |-> 0],
     riskCheck |-> [canOpen |-> FALSE, failureReasons |-> {}]]

IntelligentSizing(s, p) ==
    IF p.entryPrice = 0 \/ p.stopLossPrice = 0 THEN SizingError
    ELSE
    LET fixed == FixedPercentageRisk(s, p.entryPrice, p.stopLossPrice)
        kelly == IF p.takeProfitPrice # 0
                 THEN KellyCriterionWithPrice(s, p.entryPrice, p.stopLossPrice,
                                              p.takeProfitPrice, p.winProbability)
                 ELSE fixed
        vol == IF p.atr # 0 /\ p.averageAtr # 0
               THEN VolatilityAdjustedSizing(s, p.entryPrice, p.stopLossPrice,
                                             p.atr, p.averageAtr)
               ELSE fixed
        conf == ConfidenceGradedSizing(s, p.entryPrice, p.stopLossPrice,
                                       p.tradeGrade, p.confidenceScore)
        mom == MomentumBasedSizing(s, p.entryPrice, p.stopLossPrice, p.momentumScore)
        weightedQuantity == fixed.quantity * 20 + kelly.quantity * 20 + vol.quantity * 15
                            + conf.quantity * 30 + mom.quantity * 15
        maxQuantity == MulDivMod(s.currentBalance * s.maxLeverage, 1000000, p.entryPrice)
        isLeverageCapped == weightedQuantity > maxQuantity.q
        finalQuantity ==
            IF isLeverageCapped
            THEN MulDivRound(s.currentBalance * s.maxLeverage, 10000, p.entryPrice)
            ELSE ToFixed4(weightedQuantity)
    IN  [error |-> FALSE,
         recommendation |-> [quantity |-> finalQuantity,
                             isLeverageCapped |-> isLeverageCapped,
                             stopLoss |-> ToFixed2(p.stopLossPrice),
                             riskAmount |-> conf.riskAmount],
         riskCheck |-> CanOpenPosition(s, conf.riskAmount)]

\* a recordTrade that never resets the streak
RecordTradeStreakKept(s, profitLoss) ==
    [s EXCEPT !.currentBalance = @ + profitLoss,
              !.dailyLoss = IF profitLoss < 0 THEN @ + Abs(profitLoss) ELSE @,
              !.monthlyLoss = IF profitLoss < 0 THEN @ + Abs(profitLoss) ELSE @,
              !.consecutiveLosses = IF profitLoss < 0 THEN @ + 1 ELSE @,
              !.openPositionsCount = Max(0, @ - 1)]

RecordTrade(s, profitLoss) ==
    [s EXCEPT !.currentBalance = @ + profitLoss,
              !.dailyLoss = IF profitLoss < 0 THEN @ + Abs(profitLoss) ELSE @,
              !.monthlyLoss = IF profitLoss < 0 THEN @ + Abs(profitLoss) ELSE @,
              !.consecutiveLosses = IF profitLoss < 0 THEN @ + 1 ELSE 0,
              !.openPositionsCount = Max(0, @ - 1)]

IncrementOpenPositions(s) == [s EXCEPT !.openPositionsCount = @ + 1]

(***************************************************************************)
(* PositionSizer (the variant of execution/PositionSizer.ts): no leverage  *)
(* cap, no error result, other blending weights.  Its sizing methods       *)
(* divide by |entry - stop| without a zero guard; the inputs enumerated    *)
(* below keep entry and stop distinct for this variant, where the methods  *)
(* compute the same numbers as the ones above.                             *)
(***************************************************************************)
UpdateBalance(s, newBalance) == [s EXCEPT !.currentBalance = newBalance]

IntelligentSizingUncapped(s, p) ==
    LET fixed == FixedPercentageRisk(s, p.entryPrice, p.stopLossPrice)
        kelly == IF p.takeProfitPrice # 0 /\ p.takeProfitPrice # p.entryPrice
                 THEN KellyCriterionWithPrice(s, p.entryPrice, p.stopLossPrice,
                                              p.takeProfitPrice, p.winProbability)
                 ELSE fixed
        volatility == IF p.atr # 0 /\ p.averageAtr # 0
                      THEN VolatilityAdjustedSizing(s, p.entryPrice, p.stopLossPrice,
                                                    p.atr, p.averageAtr)
                      ELSE fixed
        confidence == ConfidenceGradedSizing(s, p.entryPrice, p.stopLossPrice,
                                             p.tradeGrade, p.confidenceScore)
        momentum == MomentumBasedSizing(s, p.entryPrice, p.stopLossPrice, p.momentumScore)
        weightedQty == fixed.quantity * 20 + kelly.quantity * 25 + volatility.quantity * 20
                       + confidence.quantity * 20 + momentum.quantity * 15
    IN  [error |-> FALSE,
         recommendation |-> [quantity |-> ToFixed4(weightedQty),
                             isLeverageCapped |-> FALSE,
                             stopLoss |-> p.stopLossPrice,
                             riskAmount |-> confidence.riskAmount],
         riskCheck |-> CanOpenPosition(s, confidence.riskAmount)]

(***************************************************************************)
(* AccountManager                                                          *)
(***************************************************************************)
NewAccountManager(initialCapital) ==
    [initialCapital |-> initialCapital, capital |-> initialCapital,
     todayPNL |-> 0, weeklyPNL |-> 0, tradesToday |-> 0,
     winningStreak |-> 0, losingStreak |-> 0,
     maxEquity |-> initialCapital, maxDrawdown |-> 0]

CalculatePositionSize(a, riskPerTrade, leverage, entryPrice, stopLoss) ==
    LET riskPerShare == Abs(entryPrice - stopLoss)
        riskAmount == RiskAmountOf(a.capital, riskPerTrade)
        maxPositionValue == a.capital * leverage
        requested == MulDiv(riskAmount, 1000000, riskPerShare)
        allowed == MulDiv(maxPositionValue, 1000000, entryPrice)
        shares == IF requested > allowed
                  THEN MulDiv(maxPositionValue, 100, entryPrice) * 100
                  ELSE MulDiv(riskAmount, 100, riskPerShare) * 100
    IN  IF riskPerShare = 0 THEN [shares |-> 0, riskAmount |-> 0]
        ELSE [shares |-> shares, riskAmount |-> MulDiv(shares, riskPerShare, 10000)]

UpdateOnTradeStart(a) == [a EXCEPT !.tradesToday = @ + 1]

UpdateOnTradeEnd(a, pnl) ==
    LET capital == a.capital + pnl
        maxEquity == Max(a.maxEquity, capital)
    IN  [a EXCEPT !.capital = capital,
                  !.todayPNL = @ + pnl,
                  !.weeklyPNL = @ + pnl,
                  !.winningStreak = IF pnl > 0 THEN @ + 1 ELSE 0,
                  !.losingStreak = IF pnl > 0 THEN 0 ELSE @ + 1,
                  !.maxEquity = maxEquity,
                  !.maxDrawdown = Max(@, maxEquity - capital)]

IsRevengeTrading(a, maxTradesPerDay, maxDailyLoss) ==
    \/ a.tradesToday >= maxTradesPerDay
    \/ a.losingStreak >= 3
    \/ a.todayPNL <= -RiskAmountOf(a.initialCapital, maxDailyLoss)

(***************************************************************************)
(* Position sizing as a function of its inputs: a behaviour starts with    *)
(* the inputs of one call and applies one of the sizing methods to them on *)
(* a freshly constructed sizer.                                            *)
(***************************************************************************)
SizingBalances == { Dollars(50), Dollars(100) }

SizingLeverages == { 5, 10 }

SizingEntries == { Dollars(17), Dollars(100) }

SizingStopOffsets == { -Dollars(1), -Cents(1), Dollars(1) }

SizingTargets == { 0, Dollars(2) }

SizingAtrs == { <<0, 0>>, <<2, 1>>, <<1, 2>> }

SizingGrades == { "A", "B", "D" }

SizingScores == { 50, 90 }

SizingInputsAt(e) ==
    { SizingParams(e, s, t, a[1], a[2], g, c, m) :
        s \in { 0, e } \cup { e + o : o \in { d \in SizingStopOffsets : e + d > 0 } },
        t \in { IF o = 0 THEN 0 ELSE e + o : o \in SizingTargets },
        a \in SizingAtrs, g \in SizingGrades, c \in SizingScores, m \in SizingScores }

SizingInputs == UNION { SizingInputsAt(e) : e \in { 0 } \cup SizingEntries }

SizingIdle ==
    [variant |-> "none", balance |-> 0, maxLeverage |-> 0, params |-> SizingError,
     carriesQuantity |-> FALSE, quantity |-> 0, isLeverageCapped |-> FALSE]

SizingCall(balance, leverage, p) ==
    [SizingIdle EXCEPT !.variant = "pending", !.balance = balance,
                       !.maxLeverage = leverage, !.params = p]

SizingResult(variant, carries, quantity, capped) ==
    [sizing EXCEPT !.variant = variant, !.carriesQuantity = carries,
                   !.quantity = quantity, !.isLeverageCapped = capped]

SizeIntelligent ==
    LET p == sizing.params
        r == IntelligentSizing(
                 NewPositionSizer(sizing.balance, Percent(1), sizing.maxLeverage), p)
    IN  /\ sizing.variant = "pending"
        /\ sizing' = SizingResult("PositionSizer", ~r.error, r.recommendation.quantity,
                                  r.recommendation.isLeverageCapped)
        /\ UNCHANGED otherThanSizing

SizeIntelligentUncapped ==
    LET p == sizing.params
        r == IntelligentSizingUncapped(
                 NewPositionSizer(sizing.balance, Percent(1), sizing.maxLeverage), p)
    IN  /\ sizing.variant = "pending"
        /\ p.entryPrice # 0
        /\ p.entryPrice # p.stopLossPrice
        /\ sizing' = SizingResult("PositionSizerUncapped", TRUE,
                                  r.recommendation.quantity, FALSE)
        /\ UNCHANGED otherThanSizing

SizeAccount ==
    LET p == sizing.params
        r == CalculatePositionSize(NewAccountManager(sizing.balance), Percent(2),
                                   sizing.maxLeverage, p.entryPrice, p.stopLossPrice)
    IN  /\ sizing.variant = "pending"
        /\ p.entryPrice # 0
        /\ sizing' = SizingResult("AccountManager", TRUE, r.shares, FALSE)
        /\ UNCHANGED otherThanSizing

(***************************************************************************)
(* Performance metrics.  A completed trade is represented by its net       *)
(* profit or loss (netPL / netProfit / pnl) in units of 10^-6.  A          *)
(* JavaScript value is a record: kind "number" (value in units of 10^-6),  *)
(* "string" (the text produced by toFixed(2), value = the number it        *)
(* spells), "NaN", "Infinity" or "undefined".                              *)
(***************************************************************************)
Num(v) == [kind |-> "number", value |-> v]

Str(v) == [kind |-> "string", value |-> v]

NaN == [kind |-> "NaN", value |-> 0]

Infinity == [kind |-> "Infinity", value |-> 0]

Undefined == [kind |-> "undefined", value |-> 0]

Divide(x, y) ==
    IF y # 0 THEN Num(MulDivRound(x, 1000000, y))
    ELSE IF x = 0 THEN NaN
    ELSE Infinity

ToFixed(v) == IF v.kind = "number" THEN Str(ToFixed2(v.value)) ELSE Str(v.value)

RECURSIVE Sum(_)
Sum(pls) == IF Len(pls) = 0 THEN 0 ELSE Head(pls) + Sum(Tail(pls))

IsWin(pl) == pl > 0

IsLoss(pl) == ~(pl > 0)

GrossProfit(trades) == Sum(SelectSeq(trades, IsWin))

GrossLoss(trades) == Abs(Sum(SelectSeq(trades, IsLoss)))

\* BacktestEngine.calculateMetrics (both variants of the engine)
ProfitFactorFixed(winningSum, losingSum) ==
    IF losingSum > 0 THEN ToFixed(Divide(winningSum, losingSum))
    ELSE ToFixed(Num(winningSum))

CalculateMetrics(trades) ==
    IF Len(trades) = 0 THEN [totalTrades |-> 0, profitFactor |-> Undefined]
    ELSE [totalTrades |-> Len(trades),
          profitFactor |-> ProfitFactorFixed(GrossProfit(trades), GrossLoss(trades))]

\* MetricsCalculator.calculate
ProfitFactorUnguarded(grossProfit, grossLoss) == Divide(grossProfit, grossLoss)

ProfitFactorVerbatim(grossProfit, grossLoss) ==
    IF grossLoss = 0 THEN Num(grossProfit) ELSE Divide(grossProfit, grossLoss)

Calculate(trades) ==
    IF Len(trades) = 0 THEN [totalTrades |-> 0, profitFactor |-> Num(0)]
    ELSE [totalTrades |-> Len(trades),
          profitFactor |-> ProfitFactorVerbatim(GrossProfit(trades), GrossLoss(trades))]

\* BacktestEngine.calculateResults
NoLossMarker == Num(Dollars(100))

ProfitFactorCapped(trades) ==
    LET wins == GrossProfit(trades)
        losses == Sum(SelectSeq(trades, IsLoss))
        avgLoss == IF Len(SelectSeq(trades, IsLoss)) > 0 THEN Abs(losses) ELSE 0
        totalPnL == wins + losses
    IN  IF avgLoss > 0 THEN Divide(wins, Abs(losses))
        ELSE IF totalPnL > 0 THEN NoLossMarker
        ELSE Num(0)

CalculateResults(trades) ==
    [totalTrades |-> Len(trades), profitFactor |-> ProfitFactorCapped(trades)]

(***************************************************************************)
(* The metrics as functions of the trade list: a behaviour starts with a   *)
(* list of completed trades and applies one of the computations to it.     *)
(***************************************************************************)
MaxTrades == 3

TradeOutcomes == { -Dollars(1) - Cents(50), 0, Dollars(1) + 234500, Dollars(2) + 5000 }

RECURSIVE TradeLists(_)
TradeLists(n) ==
    IF n = 0 THEN { <<>> }
    ELSE LET shorter == TradeLists(n - 1)
         IN  shorter \cup { Append(l, pl) : l \in { x \in shorter : Len(x) = n - 1 },
                                            pl \in TradeOutcomes }

MetricsIdle ==
    [calculator |-> "none", trades |-> <<>>, grossProfit |-> 0, grossLoss |-> 0,
     result |-> [totalTrades |-> 0, profitFactor |-> Undefined]]

MetricsCall(trades) ==
    [MetricsIdle EXCEPT !.calculator = "pending", !.trades = trades,
                        !.grossProfit = GrossProfit(trades),
                        !.grossLoss = GrossLoss(trades)]

RunCalculateMetrics ==
    /\ metrics.calculator = "pending"
    /\ metrics' = [metrics EXCEPT !.calculator = "calculateMetrics",
                                  !.result = CalculateMetrics(metrics.trades)]
    /\ UNCHANGED otherThanMetrics

RunCalculate ==
    /\ metrics.calculator = "pending"
    /\ metrics' = [metrics EXCEPT !.calculator = "MetricsCalculator.calculate",
                                  !.result = Calculate(metrics.trades)]
    /\ UNCHANGED otherThanMetrics

RunCalculateResults ==
    /\ metrics.calculator = "pending"
    /\ metrics' = [metrics EXCEPT !.calculator = "calculateResults",
                                  !.result = CalculateResults(metrics.trades)]
    /\ UNCHANGED otherThanMetrics

(***************************************************************************)
(* Backtest engines.  Three engines are modelled: BacktestEngine.runBacktest*)
(* with LONG and SHORT positions, breakeven and trailing stops (engine     *)
(* "runBacktest"), the LONG-only BacktestEngine.runBacktest (engine        *)
(* "runBacktestLongOnly") and BacktestEngine.run on top of AccountManager  *)
(* (engine "run").  One step of a behaviour is one iteration of the        *)
(* engine's candle loop: the candle and the signal the strategy returns    *)
(* for it are the inputs.  Timestamps are candle numbers; MaxBars bounds   *)
(* the candles an engine processes over all its runs, MaxRuns the calls of *)
(* the run method on one engine.  Money amounts scale: the account starts  *)
(* with 100 where the scripts use 10000.  The action "WAIT" stands for     *)
(* every signal that is neither BUY nor SELL.                              *)
(***************************************************************************)
MaxBars == 3

MaxRuns == 2

Commission == 1000

Slippage == 500

Leverage == 10

InitialCapital == Dollars(100)

SmallCapital == Cents(2)

RiskPerTrade == Percent(2)

HighCapSymbols ==
    { "BTCUSD", "ETHUSD", "SOLUSD", "BNBUSD", "XRPUSD", "BTC", "ETH", "SOL", "BNB", "XRP" }

PerMillion(x, ppm) == MulDiv(x, ppm, 1000000)

SlipDown(price) == PerMillion(price, 1000000 - Slippage)

SlipUp(price) == PerMillion(price, 1000000 + Slippage)

Value(quantity, price) == MulDiv(quantity, price, 10000)

Signal(action, price, stopLoss, takeProfit, confidence) ==
    [action |-> action, price |-> price, stopLoss |-> stopLoss,
     takeProfit |-> takeProfit, confidence |-> confidence]

Position(coin, type, entryPrice, quantity, stopLoss, takeProfit, riskAmount, time) ==
    [coin |-> coin, type |-> type, entryPrice |-> entryPrice, quantity |-> quantity,
     stopLoss |-> stopLoss, takeProfit |-> takeProfit, riskAmount |-> riskAmount,
     entryTime |-> time, highWaterMark |-> entryPrice, isBreakeven |-> FALSE,
     stopBefore |-> stopLoss]

Trade(position, exitPrice, netPL, reason, time) ==
    [coin |-> position.coin, type |-> position.type,
     entryPrice |-> position.entryPrice, exitPrice |-> exitPrice,
     quantity |-> position.quantity, entryTime |-> position.entryTime,
     exitTime |-> time, netPL |-> netPL,
     status |-> IF netPL > 0 THEN "WIN" ELSE "LOSS", reason |-> reason]

\* what one stop/target check saw and decided; `price` is the trigger price
\* before slippage
ExitCheck(position, candle, outcome, price) ==
    [low |-> candle.low, high |-> candle.high,
     stop |-> position.stopLoss, target |-> position.takeProfit,
     outcome |-> outcome, price |-> price]

\* what one attempt to open a position did: `gate` is "passed" or "failed" as
\* the sizer's riskCheck.canOpen says, "none" where no risk check was computed
NoOpen == [attempted |-> FALSE, opened |-> FALSE, gate |-> "none", quantity |-> 0]

OpenAttempt(opened, gate, quantity) ==
    [attempted |-> TRUE, opened |-> opened, gate |-> gate, quantity |-> quantity]

GateOf(riskCheck) == IF riskCheck.canOpen THEN "passed" ELSE "failed"

\* Map<string, BacktestPosition> as the sequence of its values in insertion order
MapHas(positions, coin) == \E k \in 1..Len(positions) : positions[k].coin = coin

MapGet(positions, coin) ==
    positions[CHOOSE k \in 1..Len(positions) : positions[k].coin = coin]

MapAppend(positions, coin, p) == Append(positions, p)

MapSet(positions, coin, p) ==
    IF MapHas(positions, coin)
    THEN [k \in 1..Len(positions) |-> IF positions[k].coin = coin THEN p ELSE positions[k]]
    ELSE Append(positions, p)

IsNotFor(coin, p) == p.coin # coin

MapDelete(positions, coin) == SelectSeq(positions, LAMBDA p : IsNotFor(coin, p))

NetPLs(trades) == [k \in 1..Len(trades) |-> trades[k].netPL]

(***************************************************************************)
(* Engine "runBacktest": BacktestEngine with breakeven and trailing stops. *)
(* `st` carries the fields the helpers change: positions, trades, equity,  *)
(* the position sizer and the exit checks made for the current candle.     *)
(***************************************************************************)
ExecuteSellSignal(st, coin, candle, action, reasonOverride, time) ==
    IF ~MapHas(st.positions, coin) THEN st
    ELSE
    LET position == MapGet(st.positions, coin)
        trigger == CASE reasonOverride = "STOP_LOSS" -> position.stopLoss
                     [] reasonOverride = "TAKE_PROFIT" -> position.takeProfit
                     [] OTHER -> candle.close
        exitPrice == IF position.type = "LONG" THEN SlipDown(trigger) ELSE SlipUp(trigger)
        positionValue == Value(position.quantity, position.entryPrice)
        exitValue == Value(position.quantity, exitPrice)
        grossPL == IF position.type = "LONG" THEN exitValue - positionValue
                   ELSE positionValue - exitValue
        commissionCost == PerMillion(exitValue, Commission)
        netPL == grossPL - commissionCost
        reason == IF reasonOverride # "" THEN reasonOverride ELSE action
    IN  [st EXCEPT !.equity = @ + netPL,
                   !.trades = Append(@, Trade(position, exitPrice, netPL, reason, time)),
                   !.positions = MapDelete(@, coin),
                   !.sizer = RecordTrade(@, netPL)]

ManageStop(position, coin, candle) ==
    LET long == position.type = "LONG"
        extreme == IF long THEN candle.high ELSE candle.low
        gain == IF long THEN extreme - position.entryPrice
                ELSE position.entryPrice - extreme
        risk == IF long THEN position.entryPrice - position.stopLoss
                ELSE position.stopLoss - position.entryPrice
        promote == ~position.isBreakeven /\ 2 * gain >= risk
        p1 == IF promote
              THEN [position EXCEPT !.stopLoss = position.entryPrice, !.isBreakeven = TRUE]
              ELSE position
        newMark == IF long THEN extreme > p1.highWaterMark ELSE extreme < p1.highWaterMark
        isHighCap == coin \in HighCapSymbols
        newSL == IF long THEN MulDiv(extreme, IF isHighCap THEN 985 ELSE 980, 1000)
                 ELSE MulDiv(extreme, IF isHighCap THEN 1015 ELSE 1020, 1000)
        trail == /\ gain > MulDiv(position.entryPrice, 3, 100)
                 /\ IF long THEN newSL > p1.stopLoss ELSE newSL < p1.stopLoss
        p2 == IF ~newMark THEN p1
              ELSE [p1 EXCEPT !.highWaterMark = extreme,
                              !.stopLoss = IF trail THEN newSL ELSE @]
    IN  [p2 EXCEPT !.stopBefore = position.stopLoss]

CheckStopsPosition(st, coin, candle, time) ==
    LET position == MapGet(st.positions, coin)
        long == position.type = "LONG"
        stopHit == IF long THEN candle.low <= position.stopLoss
                   ELSE candle.high >= position.stopLoss
        targetHit == IF long THEN candle.high >= position.takeProfit
                     ELSE candle.low <= position.takeProfit
        outcome == IF stopHit THEN "STOP_LOSS"
                   ELSE IF targetHit THEN "TAKE_PROFIT" ELSE "NONE"
        price == CASE outcome = "STOP_LOSS" -> position.stopLoss
                   [] outcome = "TAKE_PROFIT" -> position.takeProfit
                   [] OTHER -> 0
        seen == [st EXCEPT !.checks =
                    Append(@, ExitCheck(position, candle, outcome, price))]
    IN  IF outcome # "NONE"
        THEN ExecuteSellSignal(seen, coin, candle, IF long THEN "SELL" ELSE "BUY",
                               outcome, time)
        ELSE [seen EXCEPT
                 !.positions = MapSet(@, coin, ManageStop(position, coin, candle))]

RECURSIVE CheckStopsFrom(_, _, _, _, _)
CheckStopsFrom(st, keys, k, candle, time) ==
    IF k > Len(keys) THEN st
    ELSE IF ~MapHas(st.positions, keys[k])
    THEN CheckStopsFrom(st, keys, k + 1, candle, time)
    ELSE CheckStopsFrom(CheckStopsPosition(st, keys[k], candle, time),
                        keys, k + 1, candle, time)

CheckStops(st, candle, time) ==
    CheckStopsFrom(st, [k \in 1..Len(st.positions) |-> st.positions[k].coin], 1,
                   candle, time)

\* the part of the ENTRY LOGIC block that follows the call of intelligentSizing,
\* whose result is `sized`; `continued` tells that the loop iteration was left
\* by `continue`
EnterSized(st, coin, signal, time, sized) ==
    LET tradeSize == sized.recommendation.quantity
        side == IF signal.action = "BUY" THEN "LONG" ELSE "SHORT"
        fee == PerMillion(Value(tradeSize, signal.price), Commission)
        entryPrice == IF side = "LONG" THEN SlipUp(signal.price) ELSE SlipDown(signal.price)
        stopLoss == IF sized.recommendation.stopLoss # 0 THEN sized.recommendation.stopLoss
                    ELSE IF signal.stopLoss # 0 THEN signal.stopLoss ELSE signal.price
        opened == [Position(coin, side, entryPrice, tradeSize, stopLoss, signal.takeProfit,
                            sized.recommendation.riskAmount, time)
                   EXCEPT !.highWaterMark = signal.price]
    IN  IF sized.error
        THEN [st |-> st, continued |-> TRUE, open |-> OpenAttempt(FALSE, "none", 0)]
        ELSE IF tradeSize <= 0 \/ st.equity < fee
        THEN [st |-> st, continued |-> TRUE,
              open |-> OpenAttempt(FALSE, GateOf(sized.riskCheck), tradeSize)]
        ELSE [st |-> [st EXCEPT !.equity = @ - fee,
                                !.positions = MapSet(@, coin, opened)],
              continued |-> FALSE,
              open |-> OpenAttempt(TRUE, GateOf(sized.riskCheck), tradeSize)]

\* the ENTRY LOGIC / EXIT LOGIC blocks of the loop body
EnterOrExit(st, coin, candle, signal, time) ==
    LET stopLossPrice ==
            IF signal.stopLoss # 0 THEN signal.stopLoss
            ELSE IF signal.action = "BUY" THEN MulDiv(signal.price, 98, 100)
            ELSE MulDiv(signal.price, 102, 100)
        reversed == \/ MapGet(st.positions, coin).type = "LONG" /\ signal.action = "SELL"
                    \/ MapGet(st.positions, coin).type = "SHORT" /\ signal.action = "BUY"
    IN  IF ~MapHas(st.positions, coin)
        THEN IF signal.action \notin { "BUY", "SELL" }
             THEN [st |-> st, continued |-> FALSE, open |-> NoOpen]
             ELSE EnterSized(st, coin, signal, time,
                      IntelligentSizing(st.sizer,
                          SizingParams(signal.price, stopLossPrice, 0, 0, 0, "B", 50, 50)))
        ELSE [st |-> IF reversed
                     THEN ExecuteSellSignal(st, coin, candle, signal.action, "MANUAL", time)
                     ELSE st,
              continued |-> FALSE, open |-> NoOpen]

RECURSIVE UnrealizedFrom(_, _, _)
UnrealizedFrom(positions, k, close) ==
    IF k > Len(positions) THEN 0
    ELSE LET p == positions[k]
             currentVal == Value(p.quantity, close)
             cost == Value(p.quantity, p.entryPrice)
         IN  (IF p.type = "LONG" THEN currentVal - cost ELSE cost - currentVal)
             + UnrealizedFrom(positions, k + 1, close)

EquityPoint(st, candle, time) ==
    [time |-> time, equity |-> st.equity + UnrealizedFrom(st.positions, 1, candle.close)]

(***************************************************************************)
(* Engine "runBacktestLongOnly": BacktestEngine with LONG positions only,  *)
(* no stop management, and the position sizer of execution/PositionSizer.  *)
(* A signal's stopLoss and takeProfit stand for the numbers of the 'SL:'   *)
(* and 'TP:' entries of signal.reasoning; 0 stands for a missing entry.    *)
(***************************************************************************)
ExecuteSellSignalLongOnly(st, coin, candle, action, reasonOverride, time) ==
    IF ~MapHas(st.positions, coin) THEN st
    ELSE
    LET position == MapGet(st.positions, coin)
        trigger == CASE reasonOverride = "STOP_LOSS" -> position.stopLoss
                     [] reasonOverride = "TAKE_PROFIT" -> position.takeProfit
                     [] OTHER -> candle.close
        exitPrice == SlipDown(trigger)
        positionValue == Value(position.quantity, position.entryPrice)
        exitValue == Value(position.quantity, exitPrice)
        grossPL == exitValue - positionValue
        commissionCost == PerMillion(exitValue, Commission)
        netPL == grossPL - commissionCost
        reason == IF reasonOverride # "" THEN reasonOverride ELSE action
    IN  [st EXCEPT !.equity = @ + netPL,
                   !.trades = Append(@, Trade(position, exitPrice, netPL, reason, time)),
                   !.positions = MapDelete(@, coin)]

CheckStopsPositionLongOnly(st, coin, candle, time) ==
    LET position == MapGet(st.positions, coin)
        Seen(outcome, price) ==
            [st EXCEPT !.checks = Append(@, ExitCheck(position, candle, outcome, price))]
    IN  IF position.type # "LONG" THEN st
        ELSE IF candle.low <= position.stopLoss
        THEN ExecuteSellSignalLongOnly(Seen("STOP_LOSS", position.stopLoss), coin, candle,
                                       "SELL", "STOP_LOSS", time)
        ELSE IF candle.high >= position.takeProfit
        THEN ExecuteSellSignalLongOnly(Seen("TAKE_PROFIT", position.takeProfit), coin,
                                       candle, "SELL", "TAKE_PROFIT", time)
        ELSE Seen("NONE", 0)

RECURSIVE CheckStopsLongOnlyFrom(_, _, _, _, _)
CheckStopsLongOnlyFrom(st, keys, k, candle, time) ==
    IF k > Len(keys) THEN st
    ELSE IF ~MapHas(st.positions, keys[k])
    THEN CheckStopsLongOnlyFrom(st, keys, k + 1, candle, time)
    ELSE CheckStopsLongOnlyFrom(CheckStopsPositionLongOnly(st, keys[k], candle, time),
                                keys, k + 1, candle, time)

CheckStopsLongOnly(st, candle, time) ==
    CheckStopsLongOnlyFrom(st, [k \in 1..Len(st.positions) |-> st.positions[k].coin], 1,
                           candle, time)

\* the part of executeBuySignal that follows the call of intelligentSizing,
\* whose result is `sized`
BuySized(st, coin, entryPrice, stopLoss, takeProfit, time, sized) ==
    LET quantity == sized.recommendation.quantity
        position == Position(coin, "LONG", entryPrice, quantity, stopLoss,
                             IF takeProfit # 0 THEN takeProfit
                             ELSE MulDiv(entryPrice, 102, 100),
                             sized.recommendation.riskAmount, time)
        commissionCost == PerMillion(Value(quantity, entryPrice), Commission)
    IN  IF ~sized.riskCheck.canOpen
        THEN [st |-> st, open |-> OpenAttempt(FALSE, "failed", quantity)]
        ELSE [st |-> [st EXCEPT !.equity = @ - commissionCost,
                                !.positions = MapSet(@, coin, position),
                                !.sizer = IncrementOpenPositions(@)],
              open |-> OpenAttempt(TRUE, "passed", quantity)]

BuyAt(st, coin, signal, time, entryPrice, stopLoss) ==
    BuySized(st, coin, entryPrice, stopLoss, signal.takeProfit, time,
             IntelligentSizingUncapped(st.sizer,
                 SizingParams(entryPrice, stopLoss, signal.takeProfit, 0, 0,
                              IF signal.confidence > 80 THEN "A"
                              ELSE IF signal.confidence > 60 THEN "B" ELSE "C",
                              signal.confidence, 50)))

ExecuteBuySignal(st, coin, candle, signal, time) ==
    BuyAt([st EXCEPT !.sizer = UpdateBalance(@, st.equity)], coin, signal, time,
          SlipUp(candle.close),
          IF signal.stopLoss # 0 THEN signal.stopLoss
          ELSE MulDiv(SlipUp(candle.close), 98, 100))

EnterOrExitLongOnly(st, coin, candle, signal, time) ==
    IF signal.action = "BUY" /\ ~MapHas(st.positions, coin)
    THEN ExecuteBuySignal(st, coin, candle, signal, time)
    ELSE IF signal.action = "SELL" /\ MapHas(st.positions, coin)
    THEN [st |-> ExecuteSellSignalLongOnly(st, coin, candle, signal.action, "", time),
          open |-> NoOpen]
    ELSE [st |-> st, open |-> NoOpen]

RECURSIVE UnrealizedLongOnlyFrom(_, _, _)
UnrealizedLongOnlyFrom(positions, k, close) ==
    IF k > Len(positions) THEN 0
    ELSE Value(positions[k].quantity, close)
         - Value(positions[k].quantity, positions[k].entryPrice)
         + UnrealizedLongOnlyFrom(positions, k + 1, close)

EquityPointLongOnly(st, candle, time) ==
    [time |-> time,
     equity |-> st.equity + UnrealizedLongOnlyFrom(st.positions, 1, candle.close)]

(***************************************************************************)
(* Engine "run": BacktestEngine.run on top of AccountManager.  The field   *)
(* currentPosition is the sequence `positions`: empty for null, one        *)
(* element otherwise.                                                      *)
(***************************************************************************)
SetCurrentPosition(positions, position) == << position >>

CheckExit(position, candle) ==
    IF position.type = "LONG"
    THEN IF candle.low <= position.stopLoss
         THEN [price |-> position.stopLoss, type |-> "STOP_LOSS"]
         ELSE IF candle.high >= position.takeProfit
         THEN [price |-> position.takeProfit, type |-> "TAKE_PROFIT"]
         ELSE [price |-> 0, type |-> "NONE"]
    ELSE IF candle.high >= position.stopLoss
         THEN [price |-> position.stopLoss, type |-> "STOP_LOSS"]
         ELSE IF candle.low <= position.takeProfit
         THEN [price |-> position.takeProfit, type |-> "TAKE_PROFIT"]
         ELSE [price |-> 0, type |-> "NONE"]

ClosePosition(st, position, exitPrice, type, time) ==
    LET moved == IF position.type = "LONG"
                 THEN Value(position.quantity, exitPrice - position.entryPrice)
                 ELSE Value(position.quantity, position.entryPrice - exitPrice)
        exitCost == PerMillion(Value(position.quantity, exitPrice), Commission + Slippage)
        pnl == moved - exitCost
    IN  [st EXCEPT !.account = UpdateOnTradeEnd(@, pnl),
                   !.trades = Append(@, Trade(position, exitPrice, pnl, type, time)),
                   !.positions = << >>]

CheckExitStep(st, candle, time) ==
    IF st.positions = << >> THEN st
    ELSE LET position == st.positions[1]
             exit == CheckExit(position, candle)
             seen == [st EXCEPT !.checks =
                         Append(@, ExitCheck(position, candle, exit.type, exit.price))]
         IN  IF exit.type = "NONE" THEN seen
             ELSE ClosePosition(seen, position, exit.price, exit.type, time)

OpenPosition(st, coin, candle, signal, time) ==
    LET sized == CalculatePositionSize(st.account, RiskPerTrade, Leverage,
                                       signal.price, signal.stopLoss)
        position == Position(coin, IF signal.action = "BUY" THEN "LONG" ELSE "SHORT",
                             signal.price, sized.shares, signal.stopLoss,
                             signal.takeProfit, sized.riskAmount, time)
        entryCost == PerMillion(Value(sized.shares, signal.price), Commission)
    IN  IF sized.shares <= 0
        THEN [st |-> st, open |-> OpenAttempt(FALSE, "none", sized.shares)]
        ELSE [st |-> [st EXCEPT
                         !.positions = SetCurrentPosition(@, position),
                         !.account = UpdateOnTradeEnd(UpdateOnTradeStart(@), -entryCost)],
              open |-> OpenAttempt(TRUE, "none", sized.shares)]

CalculateUnrealizedPnL(positions, candle) ==
    IF positions = << >> THEN 0
    ELSE LET pos == positions[1]
         IN  IF pos.type = "LONG"
             THEN Value(pos.quantity, candle.close - pos.entryPrice)
             ELSE Value(pos.quantity, pos.entryPrice - candle.close)

(***************************************************************************)
(* The backtest as a state machine.  `backtest` holds the engine's fields; *)
(* lastBar records what the latest loop iteration saw and did.             *)
(***************************************************************************)
\* an engine, the instrument it is run on and the capital it is configured
\* with; only "runBacktest" treats instruments differently (HighCapSymbols).
\* SmallCapital is an account of a few units on an instrument priced at
\* thousands of units, where a sized quantity rounds to 0.0000.
Runs ==
    { <<"runBacktest", "BTCUSD", InitialCapital>>,
      <<"runBacktest", "DOGEUSD", InitialCapital>>,
      <<"runBacktest", "BTCUSD", SmallCapital>>,
      <<"runBacktestLongOnly", "BTCUSD", InitialCapital>>,
      <<"run", "BTCUSD", InitialCapital>> }

DollarCandle(o, h, l, c) == Candle(Dollars(o), Dollars(h), Dollars(l), Dollars(c))

BacktestCandles ==
    { DollarCandle(100, 104, 100, 104), DollarCandle(104, 104, 103, 104),
      DollarCandle(100, 100, 96, 96), DollarCandle(96, 97, 96, 96),
      DollarCandle(100, 125, 75, 100) }

\* the signals a strategy may return on a candle closing at `close`: none,
\* or BUY / SELL with a stop 1% or 10% away and a target 3% or 20% away
SignalsAt(close) ==
    { Signal("WAIT", close, 0, 0, 0),
      Signal("BUY", close, MulDiv(close, 99, 100), MulDiv(close, 103, 100), 90),
      Signal("BUY", close, MulDiv(close, 90, 100), MulDiv(close, 120, 100), 70),
      Signal("SELL", close, MulDiv(close, 101, 100), MulDiv(close, 97, 100), 90),
      Signal("SELL", close, MulDiv(close, 110, 100), MulDiv(close, 80, 100), 70) }

NoBar ==
    [candle |-> DollarCandle(100, 100, 100, 100), signal |-> Signal("WAIT", 0, 0, 0, 0),
     heldBefore |-> FALSE, checks |-> << >>, open |-> NoOpen]

Bar(candle, signal, heldBefore, checks, open) ==
    [candle |-> candle, signal |-> signal, heldBefore |-> heldBefore,
     checks |-> checks, open |-> open]

NoResults == [totalTrades |-> 0, profitFactor |-> Undefined]

BacktestIdle ==
    [engine |-> "none", coin |-> "", initialCapital |-> 0, phase |-> "idle",
     runs |-> 0, total |-> 0, bar |-> 0,
     positions |-> << >>, trades |-> << >>, equity |-> 0, equityHistory |-> << >>,
     sizer |-> NewPositionSizer(0, 0, 10), account |-> NewAccountManager(0),
     lastBar |-> NoBar, results |-> NoResults]

NewBacktestEngine(engine, coin, initialCapital) ==
    [BacktestIdle EXCEPT
        !.engine = engine, !.coin = coin, !.initialCapital = initialCapital,
        !.phase = "running", !.runs = 1,
        !.equity = initialCapital,
        !.sizer = NewPositionSizer(initialCapital, RiskPerTrade, 10),
        !.account = NewAccountManager(initialCapital)]

BacktestInit == \E r \in Runs : backtest = NewBacktestEngine(r[1], r[2], r[3])

Working(b) ==
    [positions |-> b.positions, trades |-> b.trades, equity |-> b.equity,
     sizer |-> b.sizer, account |-> b.account, checks |-> << >>]

Stored(b, st) ==
    [b EXCEPT !.positions = st.positions, !.trades = st.trades, !.equity = st.equity,
              !.sizer = st.sizer, !.account = st.account]

RunBacktestStep(candle, signal) ==
    /\ backtest.engine = "runBacktest"
    /\ backtest.phase = "running"
    /\ backtest.total < MaxBars
    /\ LET time == backtest.bar + 1
           checked == CheckStops(Working(backtest), candle, time)
           r == EnterOrExit(checked, backtest.coin, candle, signal, time)
       IN  backtest' =
               [Stored(backtest, r.st) EXCEPT
                   !.bar = time, !.total = @ + 1,
                   !.equityHistory = IF r.continued THEN @
                                     ELSE Append(@, EquityPoint(r.st, candle, time)),
                   !.lastBar = Bar(candle, signal,
                                   MapHas(checked.positions, backtest.coin),
                                   checked.checks, r.open)]
    /\ UNCHANGED otherThanBacktest

RunBacktestReturn ==
    /\ backtest.engine = "runBacktest"
    /\ backtest.phase = "running"
    /\ LET closed == ExecuteSellSignal(Working(backtest), backtest.coin,
                                       backtest.lastBar.candle, "SELL", "", backtest.bar)
       IN  backtest' = [Stored(backtest, closed) EXCEPT
                           !.phase = "returned",
                           !.results = CalculateMetrics(NetPLs(closed.trades))]
    /\ UNCHANGED otherThanBacktest

\* a further runBacktest call on the same engine: lines 97-108 reset the
\* engine's fields and build a new PositionSizer
RunBacktestRestarted(b) ==
    [b EXCEPT !.phase = "running", !.runs = @ + 1, !.bar = 0,
              !.equity = b.initialCapital,
              !.positions = << >>, !.trades = << >>, !.equityHistory = << >>,
              !.sizer = NewPositionSizer(b.initialCapital, RiskPerTrade, 10),
              !.lastBar = NoBar, !.results = NoResults]

RunBacktestAgain ==
    /\ backtest.engine = "runBacktest"
    /\ backtest.phase = "returned"
    /\ backtest.runs < MaxRuns
    /\ backtest.total < MaxBars
    /\ backtest' = RunBacktestRestarted(backtest)
    /\ UNCHANGED otherThanBacktest

RunBacktestLongOnlyStep(candle, signal) ==
    /\ backtest.engine = "runBacktestLongOnly"
    /\ backtest.phase = "running"
    /\ backtest.total < MaxBars
    /\ LET time == backtest.bar + 1
           checked == CheckStopsLongOnly(Working(backtest), candle, time)
           r == EnterOrExitLongOnly(checked, backtest.coin, candle, signal, time)
       IN  backtest' =
               [Stored(backtest, r.st) EXCEPT
                   !.bar = time, !.total = @ + 1,
                   !.equityHistory = Append(@, EquityPointLongOnly(r.st, candle, time)),
                   !.lastBar = Bar(candle, signal,
                                   MapHas(checked.positions, backtest.coin),
                                   checked.checks, r.open)]
    /\ UNCHANGED otherThanBacktest

RunBacktestLongOnlyReturn ==
    /\ backtest.engine = "runBacktestLongOnly"
    /\ backtest.phase = "running"
    /\ LET closed == ExecuteSellSignalLongOnly(Working(backtest), backtest.coin,
                                               backtest.lastBar.candle, "SELL", "",
                                               backtest.bar)
       IN  backtest' = [Stored(backtest, closed) EXCEPT
                           !.phase = "returned",
                           !.results = CalculateMetrics(NetPLs(closed.trades))]
    /\ UNCHANGED otherThanBacktest

\* a further runBacktest call on the same engine: lines 639-643 reset the
\* engine's fields; the PositionSizer of the constructor is kept
RunBacktestLongOnlyRestarted(b) ==
    [b EXCEPT !.phase = "running", !.runs = @ + 1, !.bar = 0,
              !.equity = b.initialCapital,
              !.positions = << >>, !.trades = << >>, !.equityHistory = << >>,
              !.lastBar = NoBar, !.results = NoResults]

RunBacktestLongOnlyAgain ==
    /\ backtest.engine = "runBacktestLongOnly"
    /\ backtest.phase = "returned"
    /\ backtest.runs < MaxRuns
    /\ backtest.total < MaxBars
    /\ backtest' = RunBacktestLongOnlyRestarted(backtest)
    /\ UNCHANGED otherThanBacktest

RunStep(candle, signal) ==
    /\ backtest.engine = "run"
    /\ backtest.phase = "running"
    /\ backtest.total < MaxBars
    /\ LET time == backtest.bar + 1
           checked == CheckExitStep(Working(backtest), candle, time)
           r == IF signal.action # "WAIT"
                THEN OpenPosition(checked, backtest.coin, candle, signal, time)
                ELSE [st |-> checked, open |-> NoOpen]
       IN  backtest' =
               [Stored(backtest, r.st) EXCEPT
                   !.bar = time, !.total = @ + 1,
                   !.equityHistory =
                       Append(@, [time |-> time,
                                  equity |-> r.st.account.capital
                                     + CalculateUnrealizedPnL(r.st.positions, candle)]),
                   !.lastBar = Bar(candle, signal, checked.positions # << >>,
                                   checked.checks, r.open)]
    /\ UNCHANGED otherThanBacktest

RunReturn ==
    /\ backtest.engine = "run"
    /\ backtest.phase = "running"
    /\ backtest' = [backtest EXCEPT !.phase = "returned",
                                    !.results = CalculateResults(NetPLs(backtest.trades))]
    /\ UNCHANGED otherThanBacktest

\* a further run call on the same engine: lines 38-39 reset trades and
\* currentPosition; equityCurve and the AccountManager are the constructor's
RunRestarted(b) ==
    [b EXCEPT !.phase = "running", !.runs = @ + 1, !.bar = 0,
              !.positions = << >>, !.trades = << >>,
              !.lastBar = NoBar, !.results = NoResults]

RunAgain ==
    /\ backtest.engine = "run"
    /\ backtest.phase = "returned"
    /\ backtest.runs < MaxRuns
    /\ backtest.total < MaxBars
    /\ backtest' = RunRestarted(backtest)
    /\ UNCHANGED otherThanBacktest

(***************************************************************************)
(* TradeSimulator and Portfolio.  `portfolio` holds the Portfolio's        *)
(* balance, open positions and trade history; `bar` counts the candles     *)
(* processed and `checks` records what TradeSimulator.checkExit saw and    *)
(* decided for each position on the latest candle.                         *)
(***************************************************************************)
MaxOpen == 2

MaxSimBars == 2

NewPortfolio(initialBalance) ==
    [balance |-> initialBalance, positions |-> << >>, tradeHistory |-> << >>,
     bar |-> 0, checks |-> << >>]

PositionResult(symbol, action, size, entryPrice, stopLoss, takeProfit) ==
    [symbol |-> symbol, action |-> action, size |-> size, entryPrice |-> entryPrice,
     stopLoss |-> stopLoss, takeProfit |-> takeProfit, stopBefore |-> stopLoss]

SimPositions ==
    { PositionResult("BTCUSD", "BUY", 10000, Dollars(100), Dollars(98), Dollars(103)),
      PositionResult("BTCUSD", "BUY", 10000, Dollars(100), Dollars(90), Dollars(120)),
      PositionResult("BTCUSD", "SELL", 10000, Dollars(100), Dollars(102), Dollars(97)),
      PositionResult("BTCUSD", "SELL", 10000, Dollars(100), Dollars(110), Dollars(80)),
      PositionResult("DOGEUSD", "BUY", 10000, Dollars(100), Dollars(98), Dollars(103)) }

RemoveAt(s, i) == [k \in 1..(Len(s) - 1) |-> IF k < i THEN s[k] ELSE s[k + 1]]

\* Portfolio.closePosition of the position at index i
PortfolioClosePosition(pf, i, exitPrice, exitTime, reason, fee) ==
    LET position == pf.positions[i]
        priceDiff == IF position.action = "BUY" THEN exitPrice - position.entryPrice
                     ELSE position.entryPrice - exitPrice
        grossProfit == Value(position.size, priceDiff)
        netProfit == grossProfit - fee
    IN  [pf EXCEPT !.balance = @ + netProfit,
                   !.tradeHistory =
                       Append(@, [symbol |-> position.symbol, side |-> position.action,
                                  entryPrice |-> position.entryPrice,
                                  exitPrice |-> exitPrice, exitTime |-> exitTime,
                                  size |-> position.size, netProfit |-> netProfit,
                                  fee |-> fee, exitReason |-> reason]),
                   !.positions = RemoveAt(@, i)]

ExecuteExit(pf, i, price, reason, timestamp) ==
    LET pos == pf.positions[i]
        slippageAmount == PerMillion(price, Slippage)
        finalPrice == IF pos.action = "BUY" THEN price - slippageAmount
                      ELSE price + slippageAmount
        fee == PerMillion(Value(pos.size, finalPrice), Commission)
    IN  PortfolioClosePosition(pf, i, finalPrice, timestamp, reason, fee)

\* the trailing-stop block of TradeSimulator.checkExit: the stop of `pos` after it
TrailedStop(pos, candle) ==
    LET buy == pos.action = "BUY"
        gain == IF buy THEN candle.high - pos.entryPrice ELSE pos.entryPrice - candle.low
        newSL == IF buy THEN MulDiv(candle.high, 99, 100) ELSE MulDiv(candle.low, 101, 100)
        better == IF buy THEN newSL > pos.stopLoss ELSE newSL < pos.stopLoss
    IN  IF gain > MulDiv(pos.entryPrice, 2, 100) /\ better THEN newSL ELSE pos.stopLoss

SimCheckExit(pf, i, candle, timestamp) ==
    LET arrived == pf.positions[i]
        pos == [arrived EXCEPT !.stopLoss = TrailedStop(arrived, candle),
                               !.stopBefore = arrived.stopLoss]
        stopHit == IF pos.action = "BUY" THEN candle.low <= pos.stopLoss
                   ELSE candle.high >= pos.stopLoss
        targetHit == IF pos.action = "BUY" THEN candle.high >= pos.takeProfit
                     ELSE candle.low <= pos.takeProfit
        exitReason == IF stopHit THEN "SL" ELSE IF targetHit THEN "TP" ELSE "NONE"
        exitPrice == CASE exitReason = "SL" -> pos.stopLoss
                       [] exitReason = "TP" -> pos.takeProfit
                       [] OTHER -> 0
        seen == [pf EXCEPT !.positions[i] = pos,
                           !.checks = Append(@, ExitCheck(arrived, candle, exitReason,
                                                           exitPrice))]
    IN  IF exitReason = "NONE" THEN seen
        ELSE ExecuteExit(seen, i, exitPrice, exitReason, timestamp)

RECURSIVE ProcessFrom(_, _, _, _, _)
ProcessFrom(pf, i, candle, symbol, timestamp) ==
    IF i < 1 THEN pf
    ELSE IF pf.positions[i].symbol # symbol
    THEN ProcessFrom(pf, i - 1, candle, symbol, timestamp)
    ELSE ProcessFrom(SimCheckExit(pf, i, candle, timestamp), i - 1, candle, symbol,
                     timestamp)

AddPosition(position) ==
    /\ Len(portfolio.positions) < MaxOpen
    /\ portfolio' = [portfolio EXCEPT !.positions = Append(@, position)]
    /\ UNCHANGED otherThanPortfolio

ProcessCandle(candle, symbol) ==
    /\ portfolio.bar < MaxSimBars
    /\ portfolio' = ProcessFrom([portfolio EXCEPT !.bar = @ + 1, !.checks = << >>],
                                Len(portfolio.positions), candle, symbol,
                                portfolio.bar + 1)
    /\ UNCHANGED otherThanPortfolio

(***************************************************************************)
(* The candle loop of the three backtest engines over a given candle array:*)
(* which candles each iteration hands to the exit check, to the signal     *)
(* evaluator and to the entry.  The array is fixed when the run starts;    *)
(* a candle's timestamp is its index in the array.  The loops of the source*)
(* start at index 50 (LoopStart here) over arrays of hundreds of candles   *)
(* (up to MaxData here).                                                   *)
(***************************************************************************)
MaxData == 4

LoopStart == 1

OHLCV(timestamp, c) ==
    [timestamp |-> timestamp, open |-> c.open, high |-> c.high, low |-> c.low,
     close |-> c.close]

ReplayShapes == { Candle(3, 4, 3, 4), Candle(3, 3, 1, 1) }

ReplayArrays ==
    UNION { [1..n -> ReplayShapes] : n \in 0..MaxData }

Stamped(shapes) == [k \in 1..Len(shapes) |-> OHLCV(k - 1, shapes[k])]

\* Array.prototype.slice(start, end): negative arguments count from the
\* end, both are cut to 0..length, and the elements start..end-1 are copied
SliceIndex(len, k) == IF k < 0 THEN Max(len + k, 0) ELSE Min(k, len)

SliceThrough(arr, start, end) ==
    LET from == SliceIndex(Len(arr), start)
        to == SliceIndex(Len(arr), end + 1)
    IN  [k \in 1..Max(to - from, 0) |-> arr[from + k]]

Slice(arr, start, end) ==
    LET from == SliceIndex(Len(arr), start)
        to == SliceIndex(Len(arr), end)
    IN  [k \in 1..Max(to - from, 0) |-> arr[from + k]]

ReplayEngines == { "runBacktest", "runBacktestLongOnly", "run" }

ReplayIdle ==
    [engine |-> "none", data |-> << >>, i |-> 0, iterations |-> 0,
     exitInput |-> << >>, evaluatorInput |-> << >>, entryInput |-> << >>]

StartReplay(engine, data) ==
    [ReplayIdle EXCEPT !.engine = engine, !.data = data, !.i = LoopStart]

ReplayInit ==
    \E engine \in ReplayEngines, shapes \in ReplayArrays :
        replay = StartReplay(engine, Stamped(shapes))

\* one iteration: `i` is the loop index; exitInput, evaluatorInput and
\* entryInput are the candles handed to checkStops / checkExit, to the
\* evaluator and to the code that opens a position
LoopIteration ==
    /\ replay.engine \in ReplayEngines
    /\ replay.i < Len(replay.data)
    /\ LET i == replay.i
           recentCandles == Slice(replay.data, 0, i + 1)
           currentCandle == At(replay.data, i)
       IN  replay' =
               [replay EXCEPT
                   !.i = i + 1,
                   !.iterations = @ + 1,
                   !.exitInput = << currentCandle >>,
                   !.evaluatorInput = recentCandles,
                   !.entryInput = IF replay.engine = "run"
                                  THEN << currentCandle >> \o recentCandles
                                  ELSE << currentCandle >>]
    /\ UNCHANGED otherThanReplay

(***************************************************************************)
(* StrategyEngine: the signal evaluators.  Four evaluators are modelled:   *)
(* "evaluateAsync" and "evaluateSync" (the pure SMC StrategyEngine),       *)
(* "evaluateLegacy" (the StrategyEngine built on order blocks and fair     *)
(* value gaps of SMCAnalyzer alone) and "evaluateFib" (the synchronous     *)
(* evaluate of the Fibonacci / liquidity StrategyEngine).  What the        *)
(* analyzers they call return is part of the input: the structure, the     *)
(* dealing range, the last break, the zones and setups found.  Prices are  *)
(* integers in units of 0.0001, confidence in 1/100, `none` fields are     *)
(* empty sequences.                                                        *)
(***************************************************************************)
MinCandles == 100

MinSlDistancePerMille == 2

MaxRrCap == 10

Ticks(n) == n * 10000

\* StrategyConfig: minRiskReward in 1/10
OptimizedConfig ==
    [strictFibZone |-> FALSE, allowEquilibriumZone |-> TRUE, requireCLSCandle |-> FALSE,
     requireOrderBlockRetest |-> TRUE, minRiskReward |-> 15]

StrictConfig ==
    [strictFibZone |-> TRUE, allowEquilibriumZone |-> FALSE, requireCLSCandle |-> TRUE,
     requireOrderBlockRetest |-> TRUE, minRiskReward |-> 20]

NoTrade(price, reasoning) ==
    [action |-> "NO_TRADE", price |-> price, stopLoss |-> 0, takeProfit1 |-> 0,
     confidence |-> 0, reasoning |-> reasoning]

TradeSignal(action, price, stopLoss, takeProfit1, confidence, reasoning) ==
    [action |-> action, price |-> price, stopLoss |-> stopLoss,
     takeProfit1 |-> takeProfit1, confidence |-> confidence, reasoning |-> reasoning]

Returned(signal) == [thrown |-> FALSE, signal |-> signal]

\* candles[candles.length - 1] of an empty array is undefined: reading
\* .close throws a TypeError before any try block is entered
Thrown == [thrown |-> TRUE, signal |-> NoTrade(0, << >>)]

DirectionOf(trend) == IF trend = "BULLISH" THEN "BUY" ELSE "SELL"

\* Math.abs(a - b) || 0.0001
RiskOf(currentPrice, stopLoss) ==
    IF currentPrice = stopLoss THEN 1 ELSE Abs(currentPrice - stopLoss)

MinRisk(currentPrice) == MulDiv(currentPrice, MinSlDistancePerMille, 1000)

\* SMCAnalyzer.calculateSDTargets(origin, anchor)[0].price
SdTarget(origin, anchor) == anchor + 2 * (anchor - origin)

(***************************************************************************)
(* evaluateAsync (StrategyEngine.ts lines 158-289)                         *)
(***************************************************************************)
\* STEP 3: the entry setup, << >> when there is none, and what it adds to
\* the reasoning
EntrySetupAsync(in, trend) ==
    IF in.turtleSoup # << >> /\ in.turtleSoup[1].type = trend
    THEN [setup |-> << [stopLoss |-> in.turtleSoup[1].stopLoss, confidence |-> 85] >>,
          reasoning |-> << "Turtle Soup detected" >>]
    ELSE IF in.orderBlock # << >> /\ in.isNear
    THEN [setup |-> << [stopLoss |-> IF trend = "BULLISH"
                                     THEN MulDiv(in.orderBlock[1].low, 998, 1000)
                                     ELSE MulDiv(in.orderBlock[1].high, 1002, 1000),
                        confidence |-> 70] >>,
          reasoning |-> << "Price near valid Order Block" >>]
    ELSE [setup |-> << >>, reasoning |-> << >>]

\* STEP 4: the target and what it adds to the reasoning
TargetAsync(in, trend) ==
    IF in.lastBreak # << >>
    THEN [price |-> SdTarget(in.lastBreak[1], in.close),
          reasoning |-> << "SD-based Target (2.0 SD)" >>]
    ELSE [price |-> IF trend = "BULLISH"
                    THEN (IF in.dealingRange # << >> /\ in.dealingRange[1].high # 0
                          THEN in.dealingRange[1].high ELSE MulDiv(in.close, 105, 100))
                    ELSE (IF in.dealingRange # << >> /\ in.dealingRange[1].low # 0
                          THEN in.dealingRange[1].low ELSE MulDiv(in.close, 95, 100)),
          reasoning |-> << "Structural target applied" >>]

\* STEP 5 without the test of the reward against the risk
RiskRewardAsyncUntested(in, trend, reasoning, setup, target) ==
    LET risk0 == RiskOf(in.close, setup.stopLoss)
        minRisk == MinRisk(in.close)
        tight == risk0 < minRisk
        stopLoss == IF ~tight THEN setup.stopLoss
                    ELSE IF trend = "BULLISH" THEN in.close - minRisk
                    ELSE in.close + minRisk
    IN  TradeSignal(DirectionOf(trend), in.close, stopLoss, target,
                    Max(20, Min(95, setup.confidence)),
                    reasoning \o << "Pure SMC signal generated" >>)

\* STEP 5 and the signal, given the reasoning so far, the setup and the
\* target
RiskRewardAsync(in, trend, reasoning, setup, target) ==
    LET risk0 == RiskOf(in.close, setup.stopLoss)
        minRisk == MinRisk(in.close)
        tight == risk0 < minRisk
        stopLoss == IF ~tight THEN setup.stopLoss
                    ELSE IF trend = "BULLISH" THEN in.close - minRisk
                    ELSE in.close + minRisk
        risk == IF tight THEN minRisk ELSE risk0
        reward == Abs(target - in.close)
        capped == reward > MaxRrCap * risk
        r1 == reasoning
              \o (IF tight THEN << "Stop loss too tight, adjusting to floor" >> ELSE << >>)
              \o (IF capped THEN << "RR capped" >> ELSE << >>)
    IN  IF ~capped /\ reward * 10 < in.config.minRiskReward * risk
        THEN NoTrade(in.close, r1 \o << "RR too low" >>)
        ELSE TradeSignal(DirectionOf(trend), in.close, stopLoss, target,
                         Max(20, Min(95, setup.confidence)),
                         r1 \o << "Pure SMC signal generated" >>)

EvaluateAsyncTry(in) ==
    LET trend == in.structure
        r1 == << "Market Structure" >>
        isPremium == in.dealingRange # << >> /\ in.close > in.dealingRange[1].equilibrium
        r2 == r1 \o (IF in.dealingRange # << >> THEN << "Price in zone" >> ELSE << >>)
        entry == EntrySetupAsync(in, trend)
        target == TargetAsync(in, trend)
    IN  IF in.throws THEN NoTrade(in.close, << "Strategy Error" >>)
        ELSE IF trend = "RANGING"
        THEN NoTrade(in.close, << "Market structure is RANGING" >>)
        ELSE IF in.dealingRange # << >> /\ trend = "BULLISH" /\ isPremium
        THEN NoTrade(in.close, r1 \o << "BUY filtered: Price in Premium zone" >>)
        ELSE IF in.dealingRange # << >> /\ trend = "BEARISH" /\ ~isPremium
        THEN NoTrade(in.close, r1 \o << "SELL filtered: Price in Discount zone" >>)
        ELSE IF entry.setup = << >>
        THEN NoTrade(in.close, r2 \o entry.reasoning
                               \o << "Waiting for valid SMC entry setup" >>)
        ELSE RiskRewardAsync(in, trend, r2 \o entry.reasoning \o target.reasoning,
                             entry.setup[1], target.price)

EvaluateAsync(in) ==
    IF in.n = 0 THEN Thrown
    ELSE IF in.n < MinCandles
    THEN Returned(NoTrade(in.close, << "Insufficient candle data" >>))
    ELSE Returned(EvaluateAsyncTry(in))

(***************************************************************************)
(* evaluate, synchronous (StrategyEngine.ts lines 294-351)                 *)
(***************************************************************************)
EvaluateSyncTry(in) ==
    LET trend == in.structure
        stop0 == IF trend = "BULLISH" THEN in.orderBlock[1].low ELSE in.orderBlock[1].high
        target == IF trend = "BULLISH"
                  THEN (IF in.dealingRange # << >> /\ in.dealingRange[1].high # 0
                        THEN in.dealingRange[1].high ELSE MulDiv(in.close, 102, 100))
                  ELSE (IF in.dealingRange # << >> /\ in.dealingRange[1].low # 0
                        THEN in.dealingRange[1].low ELSE MulDiv(in.close, 98, 100))
        risk0 == RiskOf(in.close, stop0)
        minRisk == MinRisk(in.close)
        tight == risk0 < minRisk
        stopLoss == IF ~tight THEN stop0
                    ELSE IF trend = "BULLISH" THEN in.close - minRisk
                    ELSE in.close + minRisk
        risk == IF tight THEN minRisk ELSE risk0
        reward == Abs(target - in.close)
        capped == reward > MaxRrCap * risk
    IN  IF in.throws THEN NoTrade(in.close, << >>)
        ELSE IF trend = "RANGING" THEN NoTrade(in.close, << >>)
        ELSE IF in.orderBlock = << >> THEN NoTrade(in.close, << >>)
        ELSE IF ~in.isNear THEN NoTrade(in.close, << >>)
        ELSE IF ~capped /\ reward * 10 < in.config.minRiskReward * risk
        THEN NoTrade(in.close, << >>)
        ELSE TradeSignal(DirectionOf(trend), in.close, stopLoss, target, 60,
                         << "SMC Sync signal" >>)

EvaluateSync(in) ==
    IF in.n = 0 THEN Thrown
    ELSE IF in.n < MinCandles THEN Returned(NoTrade(in.close, << >>))
    ELSE Returned(EvaluateSyncTry(in))

(***************************************************************************)
(* evaluate of the order-block / fair-value-gap StrategyEngine             *)
(* (StrategyEngine.ts lines 12-128): no minimal number of candles          *)
(***************************************************************************)
\* the first zone of `zones` the current candle reaches into, << >> if none
RECURSIVE FirstInteracting(_, _, _, _)
FirstInteracting(zones, k, low, high) ==
    IF k > Len(zones) THEN << >>
    ELSE IF low <= zones[k].top /\ high >= zones[k].bottom THEN << zones[k] >>
    ELSE FirstInteracting(zones, k + 1, low, high)

\* step 4: a stop closer than 0.1% of the price withdraws the signal
ValidateLegacy(signal) ==
    IF signal.action # "NO_TRADE" /\ Abs(signal.price - signal.stopLoss) * 1000 < signal.price
    THEN [signal EXCEPT !.action = "NO_TRADE",
                        !.reasoning = Append(@, "Stop too tight")]
    ELSE signal

EvaluateLegacy(in) ==
    LET currentPrice == in.close
        r1 == << "Structure" >>
        interactingOB == FirstInteracting(in.orderBlocks, 1, in.low, in.high)
        interactingFVG == IF interactingOB # << >> THEN << >>
                          ELSE FirstInteracting(in.fvgs, 1, in.low, in.high)
        trend == in.structure
        poi == IF interactingOB # << >> /\ interactingOB[1].type = trend
               THEN << [zone |-> interactingOB[1], confidence |-> 80,
                        reason |-> "Tap into Order Block"] >>
               ELSE IF interactingFVG # << >> /\ interactingFVG[1].type = trend
               THEN << [zone |-> interactingFVG[1], confidence |-> 70,
                        reason |-> "Tap into FVG"] >>
               ELSE << >>
    IN  IF in.n = 0 THEN Thrown
        ELSE IF trend = "RANGING" \/ poi = << >>
        THEN Returned(NoTrade(currentPrice, r1))
        ELSE IF trend = "BULLISH"
        THEN Returned(ValidateLegacy(
                 TradeSignal("BUY", currentPrice, poi[1].zone.bottom,
                             currentPrice + (currentPrice - poi[1].zone.bottom) * 2,
                             poi[1].confidence, r1 \o << poi[1].reason >>)))
        ELSE Returned(ValidateLegacy(
                 TradeSignal("SELL", currentPrice, poi[1].zone.top,
                             currentPrice - (poi[1].zone.top - currentPrice) * 2,
                             poi[1].confidence, r1 \o << poi[1].reason >>)))

(***************************************************************************)
(* evaluate of the Fibonacci / liquidity StrategyEngine (part_001 lines    *)
(* 242-310)                                                                *)
(***************************************************************************)
EvaluateFibTry(in) ==
    LET trend == in.structure
        isFibValid == \/ in.fibValid
                      \/ in.config.allowEquilibriumZone /\ in.fibZone = "EQUILIBRIUM"
        targetPrice == IF in.liquidityTarget # << >> THEN in.liquidityTarget[1]
                       ELSE IF trend = "BULLISH" THEN MulDiv(in.close, 105, 100)
                       ELSE MulDiv(in.close, 95, 100)
        entrySetup == IF in.clsSetup # << >> THEN in.clsSetup
                      ELSE IF ~in.config.requireCLSCandle THEN in.fallbackSetup
                      ELSE << >>
        reward == Abs(targetPrice - in.close)
    IN  IF in.throws THEN NoTrade(in.close, << >>)
        ELSE IF trend = "RANGING" THEN NoTrade(in.close, << >>)
        ELSE IF ~isFibValid /\ in.config.strictFibZone THEN NoTrade(in.close, << >>)
        ELSE IF entrySetup = << >> THEN NoTrade(in.close, << >>)
        ELSE IF in.config.requireOrderBlockRetest /\ ~in.isNear
        THEN NoTrade(in.close, << >>)
        ELSE IF reward * 10
                  < in.config.minRiskReward * RiskOf(in.close, entrySetup[1].stopLoss)
        THEN NoTrade(in.close, << >>)
        ELSE TradeSignal(DirectionOf(trend), in.close, entrySetup[1].stopLoss,
                         targetPrice, entrySetup[1].confidence, << "Sync Signal" >>)

EvaluateFib(in) ==
    IF in.n = 0 THEN Thrown
    ELSE IF in.n < MinCandles THEN Returned(NoTrade(in.close, << >>))
    ELSE Returned(EvaluateFibTry(in))

(***************************************************************************)
(* The inputs of one evaluation and the evaluation as a state machine.     *)
(* The current candle closes at 100 with low 99 and high 101.              *)
(***************************************************************************)
CandleCounts == { 0, MinCandles - 1, MinCandles }

Structures == { "BULLISH", "BEARISH", "RANGING" }

DefaultInput ==
    [n |-> MinCandles, close |-> Ticks(100), low |-> Ticks(99), high |-> Ticks(101),
     structure |-> "RANGING", throws |-> FALSE, config |-> OptimizedConfig,
     dealingRange |-> << >>, turtleSoup |-> << >>, orderBlock |-> << >>,
     isNear |-> FALSE, lastBreak |-> << >>, orderBlocks |-> << >>, fvgs |-> << >>,
     fibValid |-> FALSE, fibZone |-> "PREMIUM", liquidityTarget |-> << >>,
     clsSetup |-> << >>, fallbackSetup |-> << >>]

DealingRanges ==
    { << >>,
      << [high |-> Ticks(110), low |-> Ticks(80), equilibrium |-> Ticks(95)] >>,
      << [high |-> Ticks(120), low |-> Ticks(90), equilibrium |-> Ticks(105)] >>,
      << [high |-> Ticks(98), low |-> Ticks(80), equilibrium |-> Ticks(89)] >> }

TurtleSoups ==
    { << >>, << [type |-> "BULLISH", stopLoss |-> Ticks(99)] >>,
      << [type |-> "BEARISH", stopLoss |-> Ticks(101)] >> }

\* the latest unmitigated order block in the direction of the trend
TrendOrderBlocks ==
    { << >>, << [low |-> Ticks(98), high |-> Ticks(99)] >>,
      << [low |-> Ticks(100), high |-> Ticks(100)] >>,
      << [low |-> Ticks(99), high |-> 1005000] >> }

LastBreaks == { << >>, << Ticks(98) >>, << Ticks(102) >>, << 999000 >> }

PoiLists ==
    { << >>, << [type |-> "BULLISH", top |-> Ticks(99), bottom |-> Ticks(97)] >>,
      << [type |-> "BEARISH", top |-> Ticks(103), bottom |-> Ticks(101)] >>,
      << [type |-> "BULLISH", top |-> Ticks(90), bottom |-> Ticks(89)],
         [type |-> "BULLISH", top |-> Ticks(100), bottom |-> 999950] >>,
      << [type |-> "BULLISH", top |-> Ticks(100), bottom |-> 998500] >> }

Setups == { << >>, << [stopLoss |-> Ticks(98), confidence |-> 75] >> }

AsyncInputs ==
    { [DefaultInput EXCEPT !.n = n, !.structure = s, !.throws = t, !.config = c,
                           !.dealingRange = dr, !.turtleSoup = ts, !.orderBlock = ob,
                           !.isNear = near, !.lastBreak = lb] :
        n \in CandleCounts, s \in Structures, t \in BOOLEAN,
        c \in { OptimizedConfig, StrictConfig }, dr \in DealingRanges,
        ts \in TurtleSoups, ob \in TrendOrderBlocks, near \in BOOLEAN, lb \in LastBreaks }

SyncInputs ==
    { [DefaultInput EXCEPT !.n = n, !.structure = s, !.throws = t, !.config = c,
                           !.dealingRange = dr, !.orderBlock = ob, !.isNear = near] :
        n \in CandleCounts, s \in Structures, t \in BOOLEAN,
        c \in { OptimizedConfig, StrictConfig }, dr \in DealingRanges,
        ob \in TrendOrderBlocks, near \in BOOLEAN }

LegacyInputs ==
    { [DefaultInput EXCEPT !.n = n, !.structure = s, !.orderBlocks = obs, !.fvgs = fvgs] :
        n \in CandleCounts, s \in Structures, obs \in PoiLists, fvgs \in PoiLists }

FibInputs ==
    { [DefaultInput EXCEPT !.n = n, !.structure = s, !.throws = t, !.config = c,
                           !.fibValid = fv, !.fibZone = fz, !.liquidityTarget = lt,
                           !.clsSetup = cls, !.fallbackSetup = fb, !.isNear = near] :
        n \in CandleCounts, s \in Structures, t \in BOOLEAN,
        c \in { OptimizedConfig, StrictConfig }, fv \in BOOLEAN,
        fz \in { "EQUILIBRIUM", "PREMIUM" }, lt \in { << >>, << Ticks(101) >> },
        cls \in Setups, fb \in Setups, near \in BOOLEAN }

EvaluationIdle ==
    [phase |-> "idle", evaluator |-> "none", in |-> DefaultInput, result |-> Thrown]

EvaluationCall(evaluator, in) ==
    [EvaluationIdle EXCEPT !.phase = "called", !.evaluator = evaluator, !.in = in]

EvaluationInit ==
    \/ \E in \in AsyncInputs : evaluation = EvaluationCall("evaluateAsync", in)
    \/ \E in \in SyncInputs : evaluation = EvaluationCall("evaluateSync", in)
    \/ \E in \in LegacyInputs : evaluation = EvaluationCall("evaluateLegacy", in)
    \/ \E in \in FibInputs : evaluation = EvaluationCall("evaluateFib", in)

RunEvaluateAsync ==
    /\ evaluation.phase = "called" /\ evaluation.evaluator = "evaluateAsync"
    /\ evaluation' = [evaluation EXCEPT !.phase = "returned",
                                        !.result = EvaluateAsync(evaluation.in)]
    /\ UNCHANGED otherThanEvaluation

RunEvaluateSync ==
    /\ evaluation.phase = "called" /\ evaluation.evaluator = "evaluateSync"
    /\ evaluation' = [evaluation EXCEPT !.phase = "returned",
                                        !.result = EvaluateSync(evaluation.in)]
    /\ UNCHANGED otherThanEvaluation

RunEvaluateLegacy ==
    /\ evaluation.phase = "called" /\ evaluation.evaluator = "evaluateLegacy"
    /\ evaluation' = [evaluation EXCEPT !.phase = "returned",
                                        !.result = EvaluateLegacy(evaluation.in)]
    /\ UNCHANGED otherThanEvaluation

RunEvaluateFib ==
    /\ evaluation.phase = "called" /\ evaluation.evaluator = "evaluateFib"
    /\ evaluation' = [evaluation EXCEPT !.phase = "returned",
                                        !.result = EvaluateFib(evaluation.in)]
    /\ UNCHANGED otherThanEvaluation

(***************************************************************************)
(* MultiTimeframeEngine: the trend of the daily and of the 4-hour candles  *)
(* and their alignment.  calculateTrendStrength counts the candles of the  *)
(* last StrengthLookback that close in the direction of the trend and      *)
(* returns the count over StrengthLookback - 1 as a percentage, so a       *)
(* strength is kept here in units of 1/(StrengthLookback - 1) percent and  *)
(* a confidence in units of 1/ConfidenceOne.                               *)
(***************************************************************************)
StrengthLookback == 20

StrongTrendPercent == 60

StrengthPercent(percent) == percent * (StrengthLookback - 1)

ConfidenceOne == (StrengthLookback - 1) * 600

\* a confidence given in hundredths
ConfidenceHundredths(n) == (n * ConfidenceOne) \div 100

HTFContext(trend, trendStrength) == [trend |-> trend, trendStrength |-> trendStrength]

NoContext == [trend |-> "NONE", trendStrength |-> 0]

CalculateTrendStrength(trend, trendingCandles) ==
    IF trend = "RANGING" THEN 0 ELSE trendingCandles * 100

AnalyzeHTFContext(trend, trendingCandles) ==
    HTFContext(trend, CalculateTrendStrength(trend, trendingCandles))

AlignedTrend(alignedTrend, isAligned, confidence) ==
    [alignedTrend |-> alignedTrend, isAligned |-> isAligned, confidence |-> confidence]

\* the mean strength as it stands, not divided by 100
MeanStrength(daily, fourHour) ==
    ((daily.trendStrength + fourHour.trendStrength) * ConfidenceOne) \div (2 * (StrengthLookback - 1))

\* avgStrength / 100
AlignedConfidence(daily, fourHour) ==
    ((daily.trendStrength + fourHour.trendStrength) * 600) \div (2 * 100)

\* daily.trendStrength / 150
ReducedConfidence(daily) == (daily.trendStrength * 600) \div 150

DetermineAlignedTrend(daily, fourHour) ==
    IF daily = NoContext \/ fourHour = NoContext
    THEN AlignedTrend("RANGING", FALSE, 0)
    ELSE IF daily.trend = fourHour.trend /\ daily.trend # "RANGING"
    THEN AlignedTrend(daily.trend, TRUE, AlignedConfidence(daily, fourHour))
    ELSE IF /\ daily.trend # "RANGING" /\ fourHour.trend = "RANGING"
            /\ daily.trendStrength > StrengthPercent(StrongTrendPercent)
    THEN AlignedTrend(daily.trend, FALSE, ReducedConfidence(daily))
    ELSE AlignedTrend("RANGING", FALSE, 0)

\* the contexts analyzeHTFContext builds, the two of the 80% / 60% scenario,
\* and the missing context the signature of determineAlignedTrend admits
TrendingCounts == { 0, 11, 12, 19 }

Contexts ==
    { AnalyzeHTFContext(trend, k) : trend \in { "BULLISH", "BEARISH", "RANGING" }, k \in TrendingCounts }
        \cup { HTFContext(trend, StrengthPercent(p)) : trend \in { "BULLISH", "BEARISH" }, p \in { 60, 80 } }
        \cup { NoContext }

NoAlignment == AlignedTrend("NONE", FALSE, 0)

AlignmentIdle == [phase |-> "idle", daily |-> NoContext, fourHour |-> NoContext, result |-> NoAlignment]

AlignmentCall(daily, fourHour) ==
    [phase |-> "called", daily |-> daily, fourHour |-> fourHour, result |-> NoAlignment]

AlignmentInit == \E daily \in Contexts, fourHour \in Contexts : alignment = AlignmentCall(daily, fourHour)

RunDetermineAlignedTrend ==
    /\ alignment.phase = "called"
    /\ alignment' = [alignment EXCEPT !.phase = "returned",
                                      !.result = DetermineAlignedTrend(alignment.daily, alignment.fourHour)]
    /\ UNCHANGED otherThanAlignment

(***************************************************************************)
(* Rising markets for SMCAnalyzer.analyze: arrays of RisingLength candles  *)
(* with open_i < close_i < open_{i+1}.  Candle i opens at i * step and     *)
(* closes body above its open; every period-th candle carries an upper     *)
(* wick and, one candle later, a lower wick.                               *)
(***************************************************************************)
RisingLength == 60

WickAt(i, wick, period, phase) == IF i % period = phase THEN wick ELSE 0

RisingCandle(i, step, body, upper, lower, period, phase) ==
    Candle(i * step, i * step + body + WickAt(i, upper, period, phase),
           i * step - WickAt(i, lower, period, (phase + 1) % period), i * step + body)

Rising(step, body, upper, lower, period, phase) ==
    [k \in 1..RisingLength |-> RisingCandle(k - 1 + period, step, body, upper, lower, period, phase)]

RisingArrays ==
    { Rising(step, 1, upper, lower, period, phase) :
        step \in { 3, 4 }, upper \in { 0, 2, 9, 20 }, lower \in { 0, 2, 9 },
        period \in { 4, 7 }, phase \in 0..2 }

IsStrictlyIncreasing(c) ==
    /\ \A k \in 1..Len(c) : c[k].open < c[k].close /\ c[k].low <= c[k].open /\ c[k].close <= c[k].high
    /\ \A k \in 1..(Len(c) - 1) : c[k].close < c[k + 1].open

AnalyzeRising(c) ==
    /\ candles = <<>>
    /\ candles' = c
    /\ analysis' = Analyze(candles')
    /\ prevMitigated' = prevMitigated \cup MitigatedKeys(analysis)
    /\ UNCHANGED otherThanSmc

(***************************************************************************)
(* findSwingHighs / findSwingLows with one candle on each side, on arrays  *)
(* that grow by one candle at a time.  Prices are in tenths: the candles   *)
(* with (high, low) = (10, 9), (9.5, 8.5) and (11, 9.8), and one more that *)
(* repeats the low 8.5.                                                    *)
(***************************************************************************)
MaxSwingCandles == 5

OneEachSide == [left |-> 1, right |-> 1]

SwingShapes ==
    { Candle(95, 100, 90, 95), Candle(90, 95, 85, 90), Candle(100, 110, 98, 105),
      Candle(90, 90, 85, 85) }

FindSwings(c, lookback) ==
    [swingHighs |-> FindSwingHighsFrom(c, lookback.left, lookback.left, lookback.right),
     swingLows |-> FindSwingLowsFrom(c, lookback.left, lookback.left, lookback.right)]

FindSwingsNext(c) ==
    /\ Len(candles) < MaxSwingCandles
    /\ candles' = Append(candles, c)
    /\ analysis' = FindSwings(candles', OneEachSide)
    /\ UNCHANGED <<prevMitigated, otherThanSmc>>

(***************************************************************************)
(* Order blocks of SMCAnalyzer.analyze after a quiet start: five candles   *)
(* that leave an active high of 104 and an active low of 93, followed by   *)
(* red candles opening at 100 and closing at 95 (without and with wicks),  *)
(* small green candles, a candle that breaks the active high with a        *)
(* displacement of 9%, and a candle that dips back to 99.                  *)
(***************************************************************************)
MaxOrderBlockCandles == 11

QuietStart ==
    << Candle(97, 97, 97, 97), Candle(97, 97, 97, 97), Candle(97, 104, 93, 97),
       Candle(97, 97, 97, 97), Candle(97, 97, 97, 97) >>

OrderBlockShapes ==
    { Candle(100, 100, 95, 95), Candle(100, 102, 94, 95), Candle(96, 97, 96, 97),
      Candle(97, 106, 97, 106), Candle(103, 103, 99, 100) }

AnalyzeAfterStart(c) ==
    /\ Len(candles) < MaxOrderBlockCandles
    /\ candles' = Append(candles, c)
    /\ analysis' = Analyze(candles')
    /\ prevMitigated' = prevMitigated \cup MitigatedKeys(analysis)
    /\ UNCHANGED otherThanSmc

(***************************************************************************)
(* A backtest of one trade: entry at 100, stop at 98, target at 106 with   *)
(* an account of 10000 risking 2% per trade.  Money is scaled by 1/100     *)
(* (account 100, prices 1.00, 0.98, 1.06), which leaves quantities as they *)
(* are.  The strategy returns the BUY signal or none; the candles close at *)
(* the entry price, reach the target, or fall to the stop.                 *)
(***************************************************************************)
CentCandle(o, h, l, c) == Candle(Cents(o), Cents(h), Cents(l), Cents(c))

SingleTradeCandles ==
    { CentCandle(100, 100, 100, 100), CentCandle(100, 106, 100, 106),
      CentCandle(100, 107, 99, 100), CentCandle(100, 100, 97, 100) }

SingleTradeSignals ==
    { Signal("WAIT", Cents(100), 0, 0, 0),
      Signal("BUY", Cents(100), Cents(98), Cents(106), 90) }

(***************************************************************************)
(* Candles for a trend that turns twice: a flat one, one with a wick on    *)
(* both sides (a swing high at 6 and a swing low at 4 among flat ones),    *)
(* one that closes below 4 and one that closes above 6.                    *)
(***************************************************************************)
TrendShapes ==
    { Candle(5, 5, 5, 5), Candle(5, 6, 4, 5), Candle(5, 5, 2, 3), Candle(5, 8, 5, 7) }

(***************************************************************************)
(* The pre-trade gate of a PositionSizer over the sizer's life: trades are *)
(* recorded, positions are counted as opened, and canOpenPosition is asked *)
(* about a risk amount.  `sizing` holds the sizer's fields next to the     *)
(* latest question and its answer; tradeHistory holds the profitLoss of    *)
(* the trades recorded.                                                    *)
(***************************************************************************)
MaxGateEvents == 4

GateProfits == { Dollars(-6), Dollars(-1), 0, Dollars(2) }

GateRisks == { Dollars(1), Dollars(6) }

NoRiskCheck == [canOpen |-> TRUE, failureReasons |-> {}]

GateStart ==
    [variant |-> "gate", sizer |-> NewPositionSizer(InitialCapital, Percent(1), 10),
     tradeHistory |-> << >>, events |-> 0, asked |-> FALSE, riskAmount |-> 0, riskCheck |-> NoRiskCheck]

GateRecordTrade(profitLoss) ==
    /\ sizing.events < MaxGateEvents
    /\ sizing' = [sizing EXCEPT !.sizer = RecordTrade(@, profitLoss), !.events = @ + 1,
                                !.tradeHistory = Append(@, profitLoss),
                                !.asked = FALSE, !.riskAmount = 0,
                                !.riskCheck = NoRiskCheck]
    /\ UNCHANGED otherThanSizing

GateIncrementOpenPositions ==
    /\ sizing.events < MaxGateEvents
    /\ sizing' = [sizing EXCEPT !.sizer = IncrementOpenPositions(@), !.events = @ + 1,
                                !.asked = FALSE, !.riskAmount = 0,
                                !.riskCheck = NoRiskCheck]
    /\ UNCHANGED otherThanSizing

GateCanOpenPosition(riskAmount) ==
    /\ sizing' = [sizing EXCEPT !.asked = TRUE, !.riskAmount = riskAmount,
                                !.riskCheck = CanOpenPosition(sizing.sizer, riskAmount)]
    /\ UNCHANGED otherThanSizing

(***************************************************************************)
(* The sizing computations on one entry and stop price, the two being      *)
(* equal among the cases: fixedPercentageRisk of both PositionSizer        *)
(* classes and AccountManager.calculatePositionSize.  The quantity         *)
(* returned is kept as a JavaScript number: a number, NaN or Infinity.     *)
(***************************************************************************)
\* execution/PositionSizer.ts: riskAmount / riskPerPoint, then toFixed(4),
\* which spells the quotient of a division by zero "Infinity" or "NaN"
FixedPercentageRiskUnguarded(currentBalance, riskPercentage, entryPrice, stopLossPrice) ==
    LET riskAmount == RiskAmountOf(currentBalance, riskPercentage)
        riskPerPoint == Abs(entryPrice - stopLossPrice)
    IN  IF riskPerPoint # 0 THEN Num(MulDivRound(riskAmount, 10000, riskPerPoint))
        ELSE IF riskAmount = 0 THEN NaN
        ELSE Infinity

ZeroStopBalances == { 0, Dollars(50), Dollars(100) }

ZeroStopEntries == { Dollars(17), Dollars(100), Dollars(250) }

ZeroStopOffsets == { 0, -Dollars(1), -Cents(1), Dollars(1) }

ZeroStopCall(balance, entryPrice, stopLossPrice) ==
    [variant |-> "pending", balance |-> balance, entryPrice |-> entryPrice,
     stopLossPrice |-> stopLossPrice, quantity |-> Undefined]

ZeroStopInit ==
    \E balance \in ZeroStopBalances, e \in ZeroStopEntries, o \in ZeroStopOffsets :
        sizing = ZeroStopCall(balance, e, e + o)

\* new PositionSizer({accountBalance}).fixedPercentageRisk(entry, stop) of
\* execution/PositionSizer.ts
RunFixedPercentageRiskUnguarded ==
    /\ sizing.variant = "pending"
    /\ sizing' = [sizing EXCEPT
                    !.variant = "execution/PositionSizer",
                    !.quantity = FixedPercentageRiskUnguarded(
                                     sizing.balance, Percent(1),
                                     sizing.entryPrice, sizing.stopLossPrice)]
    /\ UNCHANGED otherThanSizing

\* new PositionSizer({accountBalance}).fixedPercentageRisk(entry, stop) of
\* client/DeltaApiClient.ts
RunFixedPercentageRisk ==
    /\ sizing.variant = "pending"
    /\ sizing' = [sizing EXCEPT
                    !.variant = "client/PositionSizer",
                    !.quantity = Num(FixedPercentageRisk(
                                         NewPositionSizer(sizing.balance, Percent(1), 10),
                                         sizing.entryPrice, sizing.stopLossPrice).quantity)]
    /\ UNCHANGED otherThanSizing

RunCalculatePositionSize ==
    /\ sizing.variant = "pending"
    /\ sizing' = [sizing EXCEPT
                    !.variant = "AccountManager",
                    !.quantity = Num(CalculatePositionSize(
                                         NewAccountManager(sizing.balance), Percent(2),
                                         Leverage, sizing.entryPrice,
                                         sizing.stopLossPrice).shares)]
    /\ UNCHANGED otherThanSizing

(***************************************************************************)
(* intelligentSizing on parameters whose entry or stop price may be        *)
(* absent.  A price is a JavaScript value: undefined or a number.  The     *)
(* outcome of a call is tagged "error" (the object {error: ...}),          *)
(* "recommendation" or "thrown" (a TypeError reaches the caller).          *)
(***************************************************************************)
\* !price
IsFalsy(price) == price.kind = "undefined" \/ price.value = 0

SizingOutcome(kind, quantity) == [kind |-> kind, quantity |-> quantity]

PriceParams(entryPrice, stopLossPrice, takeProfitPrice) ==
    SizingParams(entryPrice.value, stopLossPrice.value, takeProfitPrice, 0, 0, "B", 50, 50)

\* client/DeltaApiClient.ts
IntelligentSizingOnPrices(s, entryPrice, stopLossPrice, takeProfitPrice) ==
    IF IsFalsy(entryPrice) \/ IsFalsy(stopLossPrice) THEN SizingOutcome("error", 0)
    ELSE SizingOutcome("recommendation",
                       IntelligentSizing(s, PriceParams(entryPrice, stopLossPrice,
                                                        takeProfitPrice)).recommendation.quantity)

\* execution/PositionSizer.ts: no test of the prices; fixedPercentageRisk
\* ends with entryPrice.toFixed(2) and stopLossPrice.toFixed(2), which throw
\* a TypeError on undefined
IntelligentSizingUncappedOnPrices(s, entryPrice, stopLossPrice, takeProfitPrice) ==
    IF entryPrice.kind = "undefined" \/ stopLossPrice.kind = "undefined"
    THEN SizingOutcome("thrown", 0)
    ELSE SizingOutcome("recommendation",
                       IntelligentSizingUncapped(s, PriceParams(entryPrice, stopLossPrice,
                                                                takeProfitPrice)).recommendation.quantity)

MissingPriceEntries == { Undefined, Num(0), Num(Dollars(17)), Num(Dollars(100)) }

MissingPriceStops == { Undefined, Num(0), Num(Dollars(16)), Num(Dollars(99)) }

\* the calls enumerated; entry and stop price are not both the number 0
MissingPriceCalls ==
    { call \in { [variant |-> "pending", balance |-> b, entryPrice |-> e,
                  stopLossPrice |-> s, takeProfitPrice |-> t,
                  outcome |-> SizingOutcome("none", 0)] :
                    b \in SizingBalances, e \in MissingPriceEntries,
                    s \in MissingPriceStops, t \in { 0, Dollars(120) } } :
        ~(call.entryPrice = Num(0) /\ call.stopLossPrice = Num(0)) }

MissingPriceInit == sizing \in MissingPriceCalls

RunIntelligentSizing ==
    /\ sizing.variant = "pending"
    /\ sizing' = [sizing EXCEPT
                    !.variant = "client/PositionSizer",
                    !.outcome = IntelligentSizingOnPrices(
                                    NewPositionSizer(sizing.balance, Percent(1), 10),
                                    sizing.entryPrice, sizing.stopLossPrice,
                                    sizing.takeProfitPrice)]
    /\ UNCHANGED otherThanSizing

RunIntelligentSizingUncapped ==
    /\ sizing.variant = "pending"
    /\ sizing' = [sizing EXCEPT
                    !.variant = "execution/PositionSizer",
                    !.outcome = IntelligentSizingUncappedOnPrices(
                                    NewPositionSizer(sizing.balance, Percent(1), 10),
                                    sizing.entryPrice, sizing.stopLossPrice,
                                    sizing.takeProfitPrice)]
    /\ UNCHANGED otherThanSizing

(***************************************************************************)
(* One engine run twice on the same data.  `replay` holds the data of the  *)
(* behaviour (per candle, the candle and the signal the strategy returns   *)
(* for it) and, once the engine is called again, what the first call       *)
(* returned.                                                               *)
(***************************************************************************)
otherThanBacktestAndReplay == <<smcVars, sizing, metrics, portfolio, evaluation, alignment>>

\* what a run returns: BacktestEngine.run returns calculateResults() with
\* finalCapital and maxDrawdown of the AccountManager, runBacktest its
\* results object with the trades, the equity history and the metrics
ReturnedResults(b) ==
    IF b.engine = "run"
    THEN [metrics |-> b.results, trades |-> b.trades,
          finalCapital |-> b.account.capital, maxDrawdown |-> b.account.maxDrawdown,
          equityHistory |-> << >>]
    ELSE [metrics |-> b.results, trades |-> b.trades,
          finalCapital |-> 0, maxDrawdown |-> 0,
          equityHistory |-> b.equityHistory]

TwiceData ==
    UNION { { << [candle |-> candle, signal |-> signal] >> :
                signal \in SignalsAt(candle.close) } : candle \in BacktestCandles }

TwiceInit == \E data \in TwiceData : replay = [data |-> data, first |-> << >>]

\* one iteration of the engine's loop over the data
TwiceStep ==
    /\ backtest.bar < Len(replay.data)
    /\ LET candle == replay.data[backtest.bar + 1].candle
           signal == replay.data[backtest.bar + 1].signal
       IN  \/ RunBacktestStep(candle, signal)
           \/ RunBacktestLongOnlyStep(candle, signal)
           \/ RunStep(candle, signal)

\* the loop is through the data: the run returns
TwiceReturn ==
    /\ backtest.bar = Len(replay.data)
    /\ \/ RunBacktestReturn
       \/ RunBacktestLongOnlyReturn
       \/ RunReturn

\* the same engine is called again on the same data
TwiceAgain ==
    /\ backtest.phase = "returned"
    /\ backtest.runs < MaxRuns
    /\ backtest' = CASE backtest.engine = "runBacktest" -> RunBacktestRestarted(backtest)
                     [] backtest.engine = "runBacktestLongOnly" ->
                            RunBacktestLongOnlyRestarted(backtest)
                     [] OTHER -> RunRestarted(backtest)
    /\ replay' = [replay EXCEPT !.first = << ReturnedResults(backtest) >>]
    /\ UNCHANGED otherThanBacktestAndReplay
(***************************************************************************)
(* Specifications.  Each one drives one part of the program and leaves the *)
(* variables of the other parts at their initial values.                   *)
(***************************************************************************)
SmcInit ==
    /\ candles = <<>>
    /\ analysis = Analyze(<<>>)
    /\ prevMitigated = {}

SizingInit ==
    \E balance \in SizingBalances, leverage \in SizingLeverages, p \in SizingInputs :
        sizing = SizingCall(balance, leverage, p)

MetricsInit == \E trades \in TradeLists(MaxTrades) : metrics = MetricsCall(trades)

StrategyIdle ==
    replay = ReplayIdle /\ evaluation = EvaluationIdle /\ alignment = AlignmentIdle

Init ==
    /\ SmcInit /\ sizing = SizingIdle /\ metrics = MetricsIdle
    /\ backtest = BacktestIdle /\ portfolio = NewPortfolio(0) /\ StrategyIdle

AnalyzeNext(c) ==
    /\ Len(candles) < MaxCandles
    /\ candles' = Append(candles, c)
    /\ analysis' = Analyze(candles')
    /\ prevMitigated' = prevMitigated \cup MitigatedKeys(analysis)
    /\ UNCHANGED otherThanSmc

NextSMC == \E c \in CandleShapes : AnalyzeNext(c)

SpecSMC == Init /\ [][NextSMC]_vars

AnalyzeBothNext(c) ==
    /\ Len(candles) < MaxCandles
    /\ candles' = Append(candles, c)
    /\ analysis' = AnalyzeBoth(candles')
    /\ prevMitigated' = prevMitigated \cup MitigatedKeys(analysis)
    /\ UNCHANGED otherThanSmc

NextClassifier == \E c \in ClassifierShapes : AnalyzeBothNext(c)

InitClassifier ==
    /\ candles = <<>> /\ analysis = AnalyzeBoth(<<>>) /\ prevMitigated = {}
    /\ sizing = SizingIdle /\ metrics = MetricsIdle
    /\ backtest = BacktestIdle /\ portfolio = NewPortfolio(0) /\ StrategyIdle

SpecClassifier == InitClassifier /\ [][NextClassifier]_vars

NextSizing == SizeIntelligent \/ SizeIntelligentUncapped \/ SizeAccount

InitSizing ==
    /\ SmcInit /\ SizingInit /\ metrics = MetricsIdle
    /\ backtest = BacktestIdle /\ portfolio = NewPortfolio(0) /\ StrategyIdle

SpecSizing == InitSizing /\ [][NextSizing]_vars

NextMetrics == RunCalculateMetrics \/ RunCalculate \/ RunCalculateResults

InitMetrics ==
    /\ SmcInit /\ sizing = SizingIdle /\ MetricsInit
    /\ backtest = BacktestIdle /\ portfolio = NewPortfolio(0) /\ StrategyIdle

SpecMetrics == InitMetrics /\ [][NextMetrics]_vars

NextBacktest ==
    \/ \E candle \in BacktestCandles : \E signal \in SignalsAt(candle.close) :
           \/ RunBacktestStep(candle, signal)
           \/ RunBacktestLongOnlyStep(candle, signal)
           \/ RunStep(candle, signal)
    \/ RunBacktestReturn
    \/ RunBacktestLongOnlyReturn
    \/ RunReturn

InitBacktest ==
    /\ SmcInit /\ sizing = SizingIdle /\ metrics = MetricsIdle
    /\ BacktestInit /\ portfolio = NewPortfolio(0) /\ StrategyIdle

SpecBacktest == InitBacktest /\ [][NextBacktest]_vars

\* engines that are run up to MaxRuns times, on fewer candle shapes
RerunCandles == { DollarCandle(100, 104, 100, 104), DollarCandle(100, 100, 96, 96) }

NextRerun ==
    \/ \E candle \in RerunCandles : \E signal \in SignalsAt(candle.close) :
           \/ RunBacktestStep(candle, signal)
           \/ RunBacktestLongOnlyStep(candle, signal)
           \/ RunStep(candle, signal)
    \/ RunBacktestReturn
    \/ RunBacktestLongOnlyReturn
    \/ RunReturn
    \/ RunBacktestAgain
    \/ RunBacktestLongOnlyAgain
    \/ RunAgain

SpecRerun == InitBacktest /\ [][NextRerun]_vars

PortfolioInit == portfolio = NewPortfolio(InitialCapital)

NextTradeSim ==
    \/ \E position \in SimPositions : AddPosition(position)
    \/ \E candle \in BacktestCandles : ProcessCandle(candle, "BTCUSD")

InitTradeSim ==
    /\ SmcInit /\ sizing = SizingIdle /\ metrics = MetricsIdle
    /\ backtest = BacktestIdle /\ PortfolioInit /\ StrategyIdle

SpecTradeSim == InitTradeSim /\ [][NextTradeSim]_vars

NextReplay == LoopIteration

InitReplay ==
    /\ SmcInit /\ sizing = SizingIdle /\ metrics = MetricsIdle
    /\ backtest = BacktestIdle /\ portfolio = NewPortfolio(0)
    /\ ReplayInit /\ evaluation = EvaluationIdle /\ alignment = AlignmentIdle

SpecReplay == InitReplay /\ [][NextReplay]_vars

NextEvaluate == RunEvaluateAsync \/ RunEvaluateSync \/ RunEvaluateLegacy \/ RunEvaluateFib

InitEvaluate ==
    /\ SmcInit /\ sizing = SizingIdle /\ metrics = MetricsIdle
    /\ backtest = BacktestIdle /\ portfolio = NewPortfolio(0)
    /\ replay = ReplayIdle /\ EvaluationInit /\ alignment = AlignmentIdle

SpecEvaluate == InitEvaluate /\ [][NextEvaluate]_vars

NextAlign == RunDetermineAlignedTrend

InitAlign ==
    /\ SmcInit /\ sizing = SizingIdle /\ metrics = MetricsIdle
    /\ backtest = BacktestIdle /\ portfolio = NewPortfolio(0)
    /\ replay = ReplayIdle /\ evaluation = EvaluationIdle /\ AlignmentInit

SpecAlign == InitAlign /\ [][NextAlign]_vars

NextRising == \E c \in RisingArrays : AnalyzeRising(c)

SpecRising == Init /\ [][NextRising]_vars

NextSwings == \E c \in SwingShapes : FindSwingsNext(c)

InitSwings ==
    /\ candles = <<>> /\ analysis = FindSwings(<<>>, OneEachSide) /\ prevMitigated = {}
    /\ sizing = SizingIdle /\ metrics = MetricsIdle
    /\ backtest = BacktestIdle /\ portfolio = NewPortfolio(0) /\ StrategyIdle

SpecSwings == InitSwings /\ [][NextSwings]_vars

NextOrderBlock == \E c \in OrderBlockShapes : AnalyzeAfterStart(c)

InitOrderBlock ==
    /\ candles = QuietStart /\ analysis = Analyze(QuietStart) /\ prevMitigated = {}
    /\ sizing = SizingIdle /\ metrics = MetricsIdle
    /\ backtest = BacktestIdle /\ portfolio = NewPortfolio(0) /\ StrategyIdle

SpecOrderBlock == InitOrderBlock /\ [][NextOrderBlock]_vars

NextSingleTrade ==
    \/ \E candle \in SingleTradeCandles : \E signal \in SingleTradeSignals :
           \/ RunBacktestStep(candle, signal)
           \/ RunBacktestLongOnlyStep(candle, signal)
           \/ RunStep(candle, signal)
    \/ RunBacktestReturn
    \/ RunBacktestLongOnlyReturn
    \/ RunReturn

SpecSingleTrade == InitBacktest /\ [][NextSingleTrade]_vars

NextGate ==
    \/ \E profitLoss \in GateProfits : GateRecordTrade(profitLoss)
    \/ GateIncrementOpenPositions
    \/ \E riskAmount \in GateRisks : GateCanOpenPosition(riskAmount)

InitGate ==
    /\ SmcInit /\ sizing = GateStart /\ metrics = MetricsIdle
    /\ backtest = BacktestIdle /\ portfolio = NewPortfolio(0) /\ StrategyIdle

SpecGate == InitGate /\ [][NextGate]_vars

NextZeroStop ==
    \/ RunFixedPercentageRiskUnguarded
    \/ RunFixedPercentageRisk
    \/ RunCalculatePositionSize

InitZeroStop ==
    /\ SmcInit /\ ZeroStopInit /\ metrics = MetricsIdle
    /\ backtest = BacktestIdle /\ portfolio = NewPortfolio(0) /\ StrategyIdle

SpecZeroStop == InitZeroStop /\ [][NextZeroStop]_vars

NextMissingPrice == RunIntelligentSizing \/ RunIntelligentSizingUncapped

InitMissingPrice ==
    /\ SmcInit /\ MissingPriceInit /\ metrics = MetricsIdle
    /\ backtest = BacktestIdle /\ portfolio = NewPortfolio(0) /\ StrategyIdle

SpecMissingPrice == InitMissingPrice /\ [][NextMissingPrice]_vars

NextTwice == TwiceStep \/ TwiceReturn \/ TwiceAgain

InitTwice ==
    /\ SmcInit /\ sizing = SizingIdle /\ metrics = MetricsIdle
    /\ BacktestInit /\ portfolio = NewPortfolio(0)
    /\ TwiceInit /\ evaluation = EvaluationIdle /\ alignment = AlignmentIdle

SpecTwice == InitTwice /\ [][NextTwice]_vars

NextTrend == \E c \in TrendShapes : AnalyzeNext(c)

SpecTrend == Init /\ [][NextTrend]_vars
(***************************************************************************)
(* Properties of the market-structure analysis (SpecSMC).                  *)
(***************************************************************************)

\* C1: while the classifier scans candle index i, every swing it compares the
\* candle with as active high or active low was confirmed strictly before i
\* (swing index + right window < i).
C1_NoLookahead ==
    \A k \in 1..Len(analysis.scan) :
        LET e == analysis.scan[k]
        IN  e.compared =>
              /\ e.lastHigh.index + Right < e.index
              /\ e.lastLow.index + Right < e.index

\* C3: a zone (order block or fair value gap, identified by kind and origin
\* index) that the analysis of a shorter prefix reported mitigated is never
\* reported unmitigated by the analysis of a longer prefix.
C3_MitigatedMonotonic ==
    /\ \A z \in SeqRange(analysis.orderBlocks) :
          ZoneKey("OB", z) \in prevMitigated => z.mitigated
    /\ \A z \in SeqRange(analysis.fvgs) :
          ZoneKey("FVG", z) \in prevMitigated => z.mitigated

C3_Witness ==
    /\ \E z \in SeqRange(analysis.orderBlocks) :
          ZoneKey("OB", z) \in prevMitigated /\ z.mitigated
    /\ \E z \in SeqRange(analysis.fvgs) :
          ZoneKey("FVG", z) \in prevMitigated /\ z.mitigated

\* C4: for every swing high returned at index i with window (left, right), no
\* candle in [i-left, i-1] has a high >= candle i's high and no candle in
\* [i+1, i+right] has a high > candle i's high.
C4_SwingHighWindow ==
    \A k \in 1..Len(analysis.swingHighs) :
        LET s == analysis.swingHighs[k]
        IN  /\ s.index - Left >= 0
            /\ s.index + Right <= Len(candles) - 1
            /\ s.price = At(candles, s.index).high
            /\ \A j \in (s.index - Left)..(s.index - 1) :
                  ~(At(candles, j).high >= s.price)
            /\ \A j \in (s.index + 1)..(s.index + Right) :
                  ~(At(candles, j).high > s.price)

C4_Witness ==
    \E k \in 1..Len(analysis.swingHighs) :
        LET s == analysis.swingHighs[k]
        IN  \E j \in (s.index + 1)..(s.index + Right) : At(candles, j).high = s.price
\* C5: every sizing result that carries a quantity satisfies
\* quantity x entryPrice <= balance x maxLeverage (quantity in 10^-4 units, so
\* quantity <= floor(balance x maxLeverage x 10^4 / entryPrice)).
C5_LeverageCap ==
    sizing.carriesQuantity =>
        sizing.quantity <= MulDiv(sizing.balance * sizing.maxLeverage, 10000,
                                  sizing.params.entryPrice)

\* C6 (as stated): with at least one completed trade and a gross loss of 0, the
\* returned profitFactor is the number grossProfit itself (no part of the
\* program returns an explicit infinite marker), and never NaN.
C6_ProfitFactorIsGrossProfit ==
    (metrics.calculator \notin { "none", "pending" }
        /\ Len(metrics.trades) >= 1 /\ metrics.grossLoss = 0)
    => metrics.result.profitFactor = Num(metrics.grossProfit)

\* C6 (amended): with at least one completed trade and a gross loss of 0, the
\* returned profitFactor is never NaN nor an infinity; MetricsCalculator.calculate
\* returns grossProfit verbatim, calculateMetrics returns grossProfit rounded to
\* two decimals as text, and calculateResults returns the stand-in 100 when
\* grossProfit > 0 and 0 otherwise.
C6_ProfitFactorGuarded ==
    (metrics.calculator \notin { "none", "pending" }
        /\ Len(metrics.trades) >= 1 /\ metrics.grossLoss = 0)
    => LET pf == metrics.result.profitFactor
       IN  /\ pf.kind \in { "number", "string" }
           /\ metrics.calculator = "MetricsCalculator.calculate"
                 => pf = Num(metrics.grossProfit)
           /\ metrics.calculator = "calculateMetrics"
                 => pf = Str(((metrics.grossProfit + 5000) \div 10000) * 10000)
           /\ metrics.calculator = "calculateResults"
                 => pf = IF metrics.grossProfit > 0 THEN Num(100000000) ELSE Num(0)

C6_Witness ==
    /\ metrics.calculator = "MetricsCalculator.calculate"
    /\ Len(metrics.trades) >= 2
    /\ metrics.grossLoss = 0
    /\ metrics.grossProfit > 0
    /\ metrics.result.profitFactor = Num(metrics.grossProfit)

(***************************************************************************)
(* Properties of the backtest engines (SpecBacktest).                      *)
(***************************************************************************)
OpenFor(coin) ==
    { k \in 1..Len(backtest.positions) : backtest.positions[k].coin = coin }

\* C2: after every step of a backtest run at most one position is open for
\* the instrument, whatever candles and signals arrive.
C2_AtMostOnePosition == Cardinality(OpenFor(backtest.coin)) <= 1

\* a BUY or SELL signal arrived while a position was held, a position was
\* opened on that candle, and still exactly one position is open
C2_Witness ==
    /\ backtest.lastBar.heldBefore
    /\ backtest.lastBar.signal.action \in { "BUY", "SELL" }
    /\ backtest.lastBar.open.opened
    /\ Cardinality(OpenFor(backtest.coin)) = 1

\* C8: stop management never loosens a stop: a LONG position's stop is not
\* below, and a SHORT position's stop not above, what it was before the
\* latest management step.
C8_StopOnlyTightens ==
    \A k \in 1..Len(backtest.positions) :
        LET p == backtest.positions[k]
        IN  IF p.type = "LONG" THEN p.stopLoss >= p.stopBefore
            ELSE p.stopLoss <= p.stopBefore

\* C9: no position is opened on a candle where the risk gate fails or the
\* sized quantity is not positive.
C9_OpenOnlyIfGatePasses ==
    backtest.lastBar.open.opened =>
        /\ backtest.lastBar.open.gate # "failed"
        /\ backtest.lastBar.open.quantity > 0

\* C10: when a backtest run has returned, no position remains open.
C10_NoOpenPositionOnReturn ==
    backtest.phase = "returned" => backtest.positions = << >>

(***************************************************************************)
(* Properties of exit checks (SpecTradeSim).                               *)
(***************************************************************************)
BothInside(c) ==
    /\ c.low <= c.stop /\ c.stop <= c.high
    /\ c.low <= c.target /\ c.target <= c.high

\* C7: when the stop and the target a position had as the candle arrived both
\* lie inside the candle's range, the position is closed on that candle as a
\* stop exit at that stop price (TradeSimulator).
C7_StopTriggersFirst ==
    \A k \in 1..Len(portfolio.checks) :
        BothInside(portfolio.checks[k]) =>
            /\ portfolio.checks[k].outcome = "SL"
            /\ portfolio.checks[k].price = portfolio.checks[k].stop

(***************************************************************************)
(* Properties of the equity curve and of the evaluator's window            *)
(* (SpecBacktest).                                                         *)
(***************************************************************************)
\* mark-to-market profit of the open positions at `close`, as each engine
\* computes it
MarkToMarket(b, candle) ==
    IF b.engine = "run" THEN CalculateUnrealizedPnL(b.positions, candle)
    ELSE IF b.engine = "runBacktest" THEN UnrealizedFrom(b.positions, 1, candle.close)
    ELSE UnrealizedLongOnlyFrom(b.positions, 1, candle.close)

RealizedBalance(b) == IF b.engine = "run" THEN b.account.capital ELSE b.equity

\* C11: every iteration of the candle loop appends exactly one point to the
\* equity curve, and that point's equity is the realized balance plus the
\* mark-to-market profit, at the candle's close, of the position open after
\* the iteration.
C11_OnePointPerCandle ==
    [][backtest'.bar = backtest.bar + 1 =>
          /\ Len(backtest'.equityHistory) = Len(backtest.equityHistory) + 1
          /\ backtest'.equityHistory[Len(backtest'.equityHistory)].equity
                 = RealizedBalance(backtest')
                   + MarkToMarket(backtest', backtest'.lastBar.candle)]_vars

IsPrefix(s, t) == Len(s) <= Len(t) /\ \A k \in 1..Len(s) : t[k] = s[k]

TimeOrdered(curve) == \A k \in 1..(Len(curve) - 1) : curve[k].time <= curve[k + 1].time

\* C12: during a run the equity curve only grows at its end, and when a run
\* returns, the curve holds points of that run only (no more points than
\* candles the run processed, each stamped with one of its candles) in
\* non-decreasing time order, also on a second run of the same engine.
C12_CurveAppendOnly ==
    [][/\ (backtest.phase = "running" /\ backtest'.runs = backtest.runs) =>
              IsPrefix(backtest.equityHistory, backtest'.equityHistory)
       /\ backtest'.phase = "returned" =>
              /\ Len(backtest'.equityHistory) <= backtest'.bar
              /\ TimeOrdered(backtest'.equityHistory)]_vars

Timestamps(cs) == { cs[k].timestamp : k \in 1..Len(cs) }

\* C13: the iteration for candle index i hands the evaluator exactly the
\* candles of index 0..i, in order, and neither the exit check nor the
\* entry is handed a candle of a later index.
C13_NoFutureCandles ==
    replay.iterations > 0 =>
        LET i == replay.i - 1
        IN  /\ replay.evaluatorInput = [k \in 1..(i + 1) |-> replay.data[k]]
            /\ \A t \in Timestamps(replay.exitInput) \cup Timestamps(replay.entryInput) :
                   t <= i

\* an iteration ran for a candle that is not the last of the array: later
\* candles exist and were withheld
C13_Witness ==
    /\ replay.iterations > 0
    /\ replay.i < Len(replay.data)
    /\ Len(replay.evaluatorInput) = replay.i

(***************************************************************************)
(* Properties of the signal evaluators (SpecEvaluate).                     *)
(***************************************************************************)
\* C14: every evaluation of fewer than 100 candles, and every evaluation
\* whose analysed structure is RANGING, returns a signal with action
\* NO_TRADE.
C14_NoTradeWhenShortOrRanging ==
    (/\ evaluation.phase = "returned"
     /\ evaluation.in.n < MinCandles \/ evaluation.in.structure = "RANGING") =>
        /\ ~evaluation.result.thrown
        /\ evaluation.result.signal.action = "NO_TRADE"

\* C15: every NO_TRADE signal returned carries at least one reasoning entry.
C15_NoTradeCarriesReason ==
    (/\ evaluation.phase = "returned"
     /\ ~evaluation.result.thrown
     /\ evaluation.result.signal.action = "NO_TRADE") =>
        evaluation.result.signal.reasoning # << >>

(***************************************************************************)
(* Properties of the structure classifier (SpecClassifier).                *)
(***************************************************************************)
IsSweep(e) == e.breaks # << >> /\ e.breaks[1].type = "SWEEP"

BreaksBefore(i) == SelectSeq(analysis.breaks, LAMBDA b : b.index < i)

BreaksUpTo(i) == SelectSeq(analysis.breaks, LAMBDA b : b.index <= i)

\* C16: a candle classified as a SWEEP leaves the trend, the active high
\* and the active low of the classifier as they were, and the structure
\* derived from the breaks up to that candle is the structure derived from
\* the breaks before it.
C16_SweepChangesNothing ==
    \A k \in 1..Len(analysis.scan) :
        LET e == analysis.scan[k]
        IN  IsSweep(e) =>
              /\ e.trendAfter = e.trend
              /\ e.lastHighAfter = e.lastHigh
              /\ e.lastLowAfter = e.lastLow
              /\ StructureOf(BreaksUpTo(e.index)) = StructureOf(BreaksBefore(e.index))

\* a SWEEP against a structure that a BOS or CHOCH has established
C16_Witness ==
    \E k \in 1..Len(analysis.scan) :
        LET e == analysis.scan[k]
        IN  /\ IsSweep(e)
            /\ StructureOf(BreaksBefore(e.index)) # "RANGING"
            /\ e.breaks[1].direction # StructureOf(BreaksBefore(e.index))

ConfirmedIndices(breaks) == { k \in 1..Len(breaks) : breaks[k].type \in { "BOS", "CHOCH" } }

LastOf(indices) == CHOOSE k \in indices : \A j \in indices : j <= k

IsLastConfirmedBreak(structure, breaks) ==
    /\ structure = "RANGING" <=> ConfirmedIndices(breaks) = {}
    /\ ConfirmedIndices(breaks) # {} =>
          structure = breaks[LastOf(ConfirmedIndices(breaks))].direction

\* C17: the structure reported is the direction of the last BOS or CHOCH
\* of the break sequence, and RANGING exactly when the sequence holds no
\* BOS and no CHOCH, for the analyzer with SWEEP events and for the one
\* without.
C17_StructureIsLastConfirmedBreak ==
    /\ IsLastConfirmedBreak(analysis.structure, analysis.breaks)
    /\ IsLastConfirmedBreak(analysis.closeOnly.structure, analysis.closeOnly.breaks)

\* the last break of the sequence is a SWEEP against the structure
\* reported, and the analyzer without SWEEP events reports a structure too
C17_Witness ==
    /\ ConfirmedIndices(analysis.breaks) # {}
    /\ LastOf(ConfirmedIndices(analysis.breaks)) < Len(analysis.breaks)
    /\ analysis.breaks[Len(analysis.breaks)].direction # analysis.structure
    /\ analysis.closeOnly.structure # "RANGING"

\* C18: with trend BULLISH and both active swings set, a candle closing
\* below the active low emits CHOCH(BEARISH) at that candle, turns the
\* trend BEARISH and clears the active low, whatever its high; mirrored for
\* trend BEARISH and a close above the active high.
C18_CloseBeyondFlipsTrend ==
    \A k \in 1..Len(analysis.scan) :
        LET e == analysis.scan[k]
        IN  /\ (e.compared /\ e.trend = "BULLISH" /\ e.candle.close < e.lastLow.price) =>
                  /\ e.breaks # << >>
                  /\ e.breaks[1].type = "CHOCH" /\ e.breaks[1].direction = "BEARISH"
                  /\ e.breaks[1].index = e.index
                  /\ e.trendAfter = "BEARISH"
                  /\ e.lastLowAfter = NoSwing
            /\ (e.compared /\ e.trend = "BEARISH" /\ e.candle.close > e.lastHigh.price) =>
                  /\ e.breaks # << >>
                  /\ e.breaks[1].type = "CHOCH" /\ e.breaks[1].direction = "BULLISH"
                  /\ e.breaks[1].index = e.index
                  /\ e.trendAfter = "BULLISH"
                  /\ e.lastHighAfter = NoSwing


(***************************************************************************)
(* Properties of the multi-timeframe aligner (SpecAlign).                  *)
(***************************************************************************)
Reports(context) == context # NoContext /\ context.trend \in { "BULLISH", "BEARISH" }

BothReportSameTrend(daily, fourHour) ==
    Reports(daily) /\ Reports(fourHour) /\ daily.trend = fourHour.trend

\* confidence = strength / divisor, for a strength in percent
IsStrengthOver(confidence, strength, divisor) ==
    confidence * divisor * (StrengthLookback - 1) = strength * ConfidenceOne

ScenarioDaily == HTFContext("BULLISH", StrengthPercent(80))

ScenarioFourHour == HTFContext("BULLISH", StrengthPercent(60))

\* C19: the aligner reports aligned exactly when both timeframes report the
\* same trend and that trend is not RANGING; the aligned trend is then that
\* trend and the confidence is the mean of the two strengths on a scale
\* from 0 to 1; daily BULLISH 80 with 4-hour BULLISH 60 gives aligned and
\* confidence 0.70.
C19_AlignedIffSameTrend ==
    alignment.phase = "returned" =>
        LET daily == alignment.daily
            fourHour == alignment.fourHour
            result == alignment.result
        IN  /\ result.isAligned <=> BothReportSameTrend(daily, fourHour)
            /\ result.isAligned =>
                  /\ result.alignedTrend = daily.trend
                  /\ IsStrengthOver(2 * result.confidence,
                                    daily.trendStrength + fourHour.trendStrength, 100)
                  /\ result.confidence >= 0 /\ result.confidence <= ConfidenceOne
            /\ (daily = ScenarioDaily /\ fourHour = ScenarioFourHour) =>
                  result = AlignedTrend("BULLISH", TRUE, ConfidenceHundredths(70))

\* the aligner has returned for daily BULLISH 80 and 4-hour BULLISH 60
C19_Witness ==
    /\ alignment.phase = "returned"
    /\ alignment.daily = ScenarioDaily /\ alignment.fourHour = ScenarioFourHour
    /\ alignment.result.isAligned

IsStrong(context) == context.trendStrength > StrengthPercent(StrongTrendPercent)

\* only the first of the two timeframes reports a trend, and a strong one
OnlyStrong(first, second) ==
    /\ Reports(first) /\ second # NoContext /\ second.trend = "RANGING"
    /\ IsStrong(first)

IsFallback(result, context) ==
    /\ result.alignedTrend = context.trend /\ ~result.isAligned
    /\ IsStrengthOver(result.confidence, context.trendStrength, 150)

\* C20: when exactly one of the two timeframes, either one,
\* reports a trend and its strength is above 60, the aligner falls back to
\* that trend with confidence strength/150; in every other case that is not
\* aligned it returns RANGING, not aligned, confidence 0.
C20_FallsBackToEitherOne ==
    alignment.phase = "returned" =>
        LET daily == alignment.daily
            fourHour == alignment.fourHour
            result == alignment.result
        IN  /\ OnlyStrong(daily, fourHour) => IsFallback(result, daily)
            /\ OnlyStrong(fourHour, daily) => IsFallback(result, fourHour)
            /\ (/\ ~OnlyStrong(daily, fourHour) /\ ~OnlyStrong(fourHour, daily)
                /\ ~BothReportSameTrend(daily, fourHour)) =>
                  result = AlignedTrend("RANGING", FALSE, 0)

(***************************************************************************)
(* Properties of the analysis of given candle arrays (SpecRising).         *)
(***************************************************************************)
BreaksOfType(breaks, type) == SelectSeq(breaks, LAMBDA b : b.type = type)

\* C21: the analysis of 60 strictly increasing candles (open_i < close_i <
\* open_{i+1}) reports structure BULLISH, at least one BOS and no SWEEP.
C21_RisingIsBullish ==
    (Len(candles) = RisingLength /\ IsStrictlyIncreasing(candles)) =>
        /\ analysis.structure = "BULLISH"
        /\ Len(BreaksOfType(analysis.breaks, "BOS")) >= 1
        /\ Len(BreaksOfType(analysis.breaks, "SWEEP")) = 0

(***************************************************************************)
(* Properties of swing detection on a growing array (SpecSwings).          *)
(***************************************************************************)
ScenarioSwingCandles ==
    << Candle(95, 100, 90, 95), Candle(90, 95, 85, 90), Candle(100, 110, 98, 105) >>

Prefix(c, n) == SubSeq(c, 1, n)

SwingLowIndices(swings) == { swings[k].index : k \in 1..Len(swings) }

\* C22: for the candles with (high, low) = (10, 9), (9.5, 8.5), (11, 9.8)
\* and left = right = 1, the first two candles yield no swing low and all
\* three yield exactly the swing low of price 8.5 at index 1; in general a
\* swing low at index i is reported only once candle i + right is in the
\* array, and not for the array that ends right before that candle.
C22_SwingLowConfirmedLater ==
    /\ candles = Prefix(ScenarioSwingCandles, 2) => analysis.swingLows = << >>
    /\ candles = ScenarioSwingCandles => analysis.swingLows = << SwingPoint("LOW", 85, 1) >>
    /\ \A k \in 1..Len(analysis.swingLows) :
          LET i == analysis.swingLows[k].index
          IN  /\ i + OneEachSide.right < Len(candles)
              /\ i \notin SwingLowIndices(FindSwings(Prefix(candles, i + OneEachSide.right),
                                                     OneEachSide).swingLows)

\* the three candles have been analysed and the swing low is reported
C22_Witness ==
    /\ candles = ScenarioSwingCandles
    /\ SwingLowIndices(analysis.swingLows) = { 1 }

(***************************************************************************)
(* Properties of order blocks (SpecOrderBlock).                            *)
(***************************************************************************)
IsRed(candle) == candle.close < candle.open

\* the candle moves up by at least 1.5% from its open to its close
IsDisplacementUp(candle) == (candle.close - candle.open) * 1000 >= 15 * candle.open

\* candle i (0-based) is a red candle from 100 to 95, no red candle follows
\* before the bullish break at candle i + 3, and that break is a displacement
IsScenarioOrderBlock(i) ==
    /\ i + 3 < Len(candles)
    /\ At(candles, i).open = 100 /\ At(candles, i).close = 95
    /\ ~IsRed(At(candles, i + 1)) /\ ~IsRed(At(candles, i + 2))
    /\ IsDisplacementUp(At(candles, i + 3))
    /\ \E k \in 1..Len(analysis.breaks) :
          analysis.breaks[k].index = i + 3 /\ analysis.breaks[k].direction = "BULLISH"

\* C23: a red candle (open 100, close 95) followed 3 candles later by a
\* break with a displacement of at least 1.5% yields an order block with
\* top 100 and bottom 95 at that candle, which is mitigated exactly when a
\* candle after the break has its low at 100 or below (unmitigated until
\* then, mitigated from then on).
C23_OrderBlockFromRedCandle ==
    \A i \in 0..(Len(candles) - 1) :
        IsScenarioOrderBlock(i) =>
            \E k \in 1..Len(analysis.orderBlocks) :
                LET z == analysis.orderBlocks[k]
                IN  /\ z.index = i /\ z.type = "BULLISH"
                    /\ z.top = 100 /\ z.bottom = 95
                    /\ z.mitigated <=>
                          \E j \in (i + 4)..(Len(candles) - 1) : At(candles, j).low <= 100

(***************************************************************************)
(* Properties of the backtest of one trade (SpecSingleTrade).              *)
(***************************************************************************)
Units(n) == n * 10000

\* a completed trade of the scenario: opened on the BUY signal at 1.00 with
\* the full account and closed at the target
IsScenarioTrade(t) ==
    /\ backtest.initialCapital = InitialCapital
    /\ Len(backtest.trades) = 1
    /\ t.type = "LONG" /\ t.reason = "TAKE_PROFIT"

EntryFee(t) == PerMillion(Value(t.quantity, Cents(100)), Commission)

ExitFee(t) == PerMillion(Value(t.quantity, Cents(106)), Commission)

\* C24: the single trade with entry 100, stop 98 and target 106 that exits
\* at the target has the quantity (capital x 2%) / 2 = 100 units, and its
\* net profit is (106 - 100) x quantity minus the entry fee and the exit
\* fee.
C24_SingleTradeQuantityAndProfit ==
    \A k \in 1..Len(backtest.trades) :
        LET t == backtest.trades[k]
        IN  IsScenarioTrade(t) =>
              /\ t.quantity = Units(100)
              /\ t.netPL = Value(t.quantity, Cents(106) - Cents(100)) - EntryFee(t) - ExitFee(t)

(***************************************************************************)
(* Properties of the pre-trade gate (SpecGate).                            *)
(***************************************************************************)
PercentOf(amount, percent) == (amount \div 100) * percent

\* the names of the rules that the sizer's fields and the risk amount fail
FailingRules(s, riskAmount) ==
    { rule \in { "belowMaxDailyLoss", "belowMaxMonthlyLoss", "belowMaxOpenPositions",
                 "notTooManyConsecutiveLosses", "sufficientCapital" } :
        \/ rule = "belowMaxDailyLoss"
              /\ s.dailyLoss + riskAmount > PercentOf(s.accountBalance, s.maxDailyLoss)
        \/ rule = "belowMaxMonthlyLoss"
              /\ s.monthlyLoss + riskAmount > PercentOf(s.accountBalance, s.maxMonthlyLoss)
        \/ rule = "belowMaxOpenPositions" /\ s.openPositionsCount >= s.maxOpenPositions
        \/ rule = "notTooManyConsecutiveLosses"
              /\ s.consecutiveLosses >= s.maxConsecutiveLosses
        \/ rule = "sufficientCapital" /\ riskAmount > PercentOf(s.currentBalance, 5) }

\* C25: the gate answers canOpen = false exactly when at least one of its
\* rules fails (daily-loss cap, monthly-loss cap, open positions at the
\* maximum, consecutive losses at the maximum, risk above 5% of the
\* balance), and its failure reasons are exactly the names of the failing
\* rules.
C25_GateNamesFailingRules ==
    sizing.asked =>
        /\ ~sizing.riskCheck.canOpen <=> FailingRules(sizing.sizer, sizing.riskAmount) # {}
        /\ sizing.riskCheck.failureReasons = FailingRules(sizing.sizer, sizing.riskAmount)

\* the gate has refused with several rules failing at once
C25_Witness ==
    /\ sizing.asked /\ ~sizing.riskCheck.canOpen
    /\ Cardinality(sizing.riskCheck.failureReasons) >= 3

(***************************************************************************)
(* Properties of the sizing computations at zero stop distance             *)
(* (SpecZeroStop).                                                         *)
(***************************************************************************)
\* C30: when the entry price equals the stop price, every sizing computation
\* returns a quantity that is a finite number: none divides by zero.
C30_ZeroStopQuantityIsFinite ==
    (sizing.variant # "pending" /\ sizing.entryPrice = sizing.stopLossPrice) =>
        sizing.quantity.kind = "number"

(***************************************************************************)
(* Properties of the signals the evaluators return (SpecEvaluate).         *)
(***************************************************************************)
IsTrade(evaluators) ==
    /\ evaluation.phase = "returned" /\ ~evaluation.result.thrown
    /\ evaluation.evaluator \in evaluators
    /\ evaluation.result.signal.action \in { "BUY", "SELL" }

SignalRisk == Abs(evaluation.result.signal.price - evaluation.result.signal.stopLoss)

SignalReward == Abs(evaluation.result.signal.takeProfit1 - evaluation.result.signal.price)

\* the evaluator of lines 12-128 takes no configuration; its signals are
\* measured against the highest minRiskReward of the presets
ActiveMinRiskReward ==
    IF evaluation.evaluator = "evaluateLegacy" THEN StrictConfig.minRiskReward
    ELSE evaluation.in.config.minRiskReward

\* C26: every BUY or SELL signal has a stop away from its price and satisfies
\* min(reward / risk, 10) >= minRiskReward of the active configuration, with
\* risk = |price - stop| and reward = |target - price|; an evaluation that
\* does not meet it returns NO_TRADE.
C26_SignalMeetsMinRiskReward ==
    IsTrade({ "evaluateAsync", "evaluateSync", "evaluateLegacy" }) =>
        /\ SignalRisk > 0
        /\ Min(SignalReward * 10, MaxRrCap * 10 * SignalRisk)
              >= ActiveMinRiskReward * SignalRisk

\* a signal of the strict configuration whose reward is between twice and ten
\* times its risk
C26_Witness ==
    /\ IsTrade({ "evaluateAsync", "evaluateSync" })
    /\ evaluation.in.config = StrictConfig
    /\ SignalReward >= 2 * SignalRisk /\ SignalReward < MaxRrCap * SignalRisk

\* C27: every BUY or SELL signal has a stop at least 0.2% of the signal price
\* away from the signal price.
C27_StopAtLeastMinDistance ==
    IsTrade({ "evaluateAsync", "evaluateSync", "evaluateLegacy" }) =>
        SignalRisk * 1000 >= evaluation.result.signal.price * MinSlDistancePerMille

InDiscountHalf(in) == in.close <= in.dealingRange[1].equilibrium

InPremiumHalf(in) == in.close >= in.dealingRange[1].equilibrium

\* C28: where there is a dealing range, a BUY signal is returned only when
\* the price is in its discount half and a SELL signal only when the price
\* is in its premium half.
C28_SignalInTrendCongruentHalf ==
    (IsTrade({ "evaluateAsync", "evaluateSync" }) /\ evaluation.in.dealingRange # << >>) =>
        /\ evaluation.result.signal.action = "BUY" => InDiscountHalf(evaluation.in)
        /\ evaluation.result.signal.action = "SELL" => InPremiumHalf(evaluation.in)

\* C29: an evaluation of fewer than 100 candles, the empty array included,
\* returns a NO_TRADE signal and does not throw, and the swing finders
\* return empty lists for fewer candles than one swing window.
C29_ShortInputIsNeutral ==
    /\ (/\ evaluation.phase = "returned" /\ evaluation.evaluator = "evaluateSync"
        /\ evaluation.in.n < MinCandles) =>
           /\ ~evaluation.result.thrown
           /\ evaluation.result.signal.action = "NO_TRADE"
    /\ Len(candles) < Left + Right + 1 =>
           analysis.swingHighs = << >> /\ analysis.swingLows = << >>

(***************************************************************************)
(* Properties of intelligentSizing on absent prices (SpecMissingPrice).    *)
(***************************************************************************)
\* C31: intelligentSizing called without an entry price or without a stop
\* price returns a tagged error result: neither a recommendation nor an
\* exception.
C31_MissingPriceGivesError ==
    (/\ sizing.variant # "pending"
     /\ sizing.entryPrice = Undefined \/ sizing.stopLossPrice = Undefined) =>
        sizing.outcome.kind = "error"

(***************************************************************************)
(* Properties of an engine run twice on the same data (SpecTwice).         *)
(***************************************************************************)
\* C32: a backtest run on the same candles with the same configuration on
\* the same engine instance returns the same result as the run before it,
\* whatever state the earlier call left.
C32_SecondRunReturnsTheSame ==
    (backtest.phase = "returned" /\ replay.first # << >>) =>
        ReturnedResults(backtest) = replay.first[1]

(***************************************************************************)
(* Properties of the order blocks and of the break sequence                *)
(* (SpecClassifier).                                                       *)
(***************************************************************************)
IsOppositeColour(candle, direction) ==
    IF direction = "BULLISH" THEN candle.close < candle.open ELSE candle.close > candle.open

\* candle i is the nearest candle before break bk, at most SearchLimit back,
\* whose colour is opposite the direction of the break
IsOriginOf(i, bk) ==
    /\ i < bk.index /\ i >= 0 /\ i >= bk.index - SearchLimit
    /\ IsOppositeColour(At(candles, i), bk.direction)
    /\ \A j \in (i + 1)..(bk.index - 1) : ~IsOppositeColour(At(candles, j), bk.direction)

IsOrderBlockOf(z, bk) ==
    /\ IsOriginOf(z.index, bk)
    /\ z.type = bk.direction
    /\ z.top = At(candles, z.index).high /\ z.bottom = At(candles, z.index).low

BreaksWithOrigin(breaks) ==
    { k \in 1..Len(breaks) : \E i \in 0..(Len(candles) - 1) : IsOriginOf(i, breaks[k]) }

\* C33: every order block is the nearest candle of opposite colour, at most
\* 50 candles back, before a BOS or CHOCH, with that candle's high and low
\* as its zone; there is one order block per such break and none for a
\* SWEEP.
C33_OrderBlocksOfConfirmedBreaks ==
    /\ \A k \in 1..Len(analysis.orderBlocks) :
           \E j \in 1..Len(analysis.breaks) :
               /\ analysis.breaks[j].type # "SWEEP"
               /\ IsOrderBlockOf(analysis.orderBlocks[k], analysis.breaks[j])
    /\ Len(analysis.orderBlocks)
          = Cardinality(BreaksWithOrigin(ConfirmedBreaks(analysis.breaks)))

\* the breaks after break j that are emitted against the side of break j
\* (BULLISH breaks are emitted against the active high, BEARISH breaks
\* against the active low)
LaterOnSameSide(breaks, j) ==
    { k \in (j + 1)..Len(breaks) : breaks[k].direction = breaks[j].direction }

RECURSIVE LosingTail(_)
LosingTail(history) ==
    IF history = << >> \/ history[Len(history)] >= 0 THEN 0
    ELSE 1 + LosingTail(SubSeq(history, 1, Len(history) - 1))

\* C35: the streak of the sizer is the number of losing trades recorded in
\* a row since the last non-losing one (recording a non-losing trade resets
\* it to 0); the gate names the consecutive-loss rule, and rejects, exactly
\* while that number is at least maxConsecutiveLosses.
C35_GateRejectsAfterLosingStreak ==
    /\ sizing.sizer.consecutiveLosses = LosingTail(sizing.tradeHistory)
    /\ sizing.asked =>
          IF LosingTail(sizing.tradeHistory) >= sizing.sizer.maxConsecutiveLosses
          THEN /\ ~sizing.riskCheck.canOpen
               /\ "notTooManyConsecutiveLosses" \in sizing.riskCheck.failureReasons
          ELSE "notTooManyConsecutiveLosses" \notin sizing.riskCheck.failureReasons

\* three losses in a row were followed by a non-losing trade, and the gate
\* accepts again
C35_Witness ==
    /\ Len(sizing.tradeHistory) = 4
    /\ \A k \in 1..3 : sizing.tradeHistory[k] < 0
    /\ sizing.tradeHistory[4] = 0
    /\ sizing.asked /\ sizing.riskCheck.canOpen

(***************************************************************************)
(* Properties of the position lifecycle of the backtests (SpecBacktest).   *)
(***************************************************************************)
\* C36: a position is opened only while the instrument has none, and a run
\* returns with no position left open: every position opened has its
\* completed trade, so the positions opened are as many as the trades.
C36_LifecycleIsStrict ==
    /\ backtest.lastBar.open.opened => ~backtest.lastBar.heldBefore
    /\ backtest.phase = "returned" => backtest.positions = << >>

(***************************************************************************)
(* Properties of the levels of a signal (SpecEvaluate).                    *)
(***************************************************************************)
\* C37: every BUY signal has stop < price < target and every SELL signal
\* has target < price < stop.
C37_LevelsOnTheirSides ==
    IsTrade({ "evaluateAsync", "evaluateSync", "evaluateLegacy" }) =>
        LET signal == evaluation.result.signal
        IN  IF signal.action = "BUY"
            THEN signal.stopLoss < signal.price /\ signal.price < signal.takeProfit1
            ELSE signal.takeProfit1 < signal.price /\ signal.price < signal.stopLoss

\* C38: after every step of a simulation, the open-position counter of the
\* PositionSizer is the number of positions open in the simulator.
C38_CounterIsOpenPositions ==
    backtest.engine \in { "runBacktest", "runBacktestLongOnly" } =>
        backtest.sizer.openPositionsCount = Len(backtest.positions)

(***************************************************************************)
(* Properties of the break sequence (SpecClassifier).                      *)
(***************************************************************************)
Opposite(direction) == IF direction = "BULLISH" THEN "BEARISH" ELSE "BULLISH"

\* the trend in force when break k is emitted: BULLISH at the start, then
\* the direction of the latest CHOCH before k
RECURSIVE TrendInForce(_, _)
TrendInForce(breaks, k) ==
    IF k = 1 THEN "BULLISH"
    ELSE IF breaks[k - 1].type = "CHOCH" THEN breaks[k - 1].direction
    ELSE TrendInForce(breaks, k - 1)

ChochsOf(breaks) == SelectSeq(breaks, LAMBDA b : b.type = "CHOCH")

\* C39: every BOS has the direction of the trend in force when it is
\* emitted and every CHOCH the opposite one, the trend starting BULLISH and
\* changing only on CHOCH (the loop holds that trend when it reaches the
\* candle of the break); the first confirmed break is BOS(BULLISH) or
\* CHOCH(BEARISH), and the CHOCHs alternate in direction.
C39_BreaksFollowTheTrend ==
    LET breaks == analysis.breaks
        confirmed == ConfirmedBreaks(breaks)
        chochs == ChochsOf(breaks)
    IN  /\ \A k \in 1..Len(breaks) :
               /\ analysis.scan[breaks[k].index + 1].trend = TrendInForce(breaks, k)
               /\ breaks[k].type = "BOS" => breaks[k].direction = TrendInForce(breaks, k)
               /\ breaks[k].type = "CHOCH" =>
                      breaks[k].direction = Opposite(TrendInForce(breaks, k))
        /\ confirmed # << >> =>
               \/ confirmed[1].type = "BOS" /\ confirmed[1].direction = "BULLISH"
               \/ confirmed[1].type = "CHOCH" /\ confirmed[1].direction = "BEARISH"
        /\ \A k \in 1..(Len(chochs) - 1) : chochs[k + 1].direction # chochs[k].direction

\* a CHOCH down, which turns the trend BEARISH, and a CHOCH up after it
C39_Witness ==
    /\ Len(ChochsOf(analysis.breaks)) >= 2
    /\ analysis.scan[Len(analysis.scan)].trendAfter = "BULLISH"

(***************************************************************************)
(* Properties of the streaks of the account (SpecBacktest).                *)
(***************************************************************************)
\* the number of trades without profit (pnl <= 0) at the end of the list
RECURSIVE NonPositiveTail(_)
NonPositiveTail(pnls) ==
    IF pnls = << >> \/ pnls[Len(pnls)] > 0 THEN 0
    ELSE 1 + NonPositiveTail(SubSeq(pnls, 1, Len(pnls) - 1))

\* the number of trades with a profit (pnl > 0) at the end of the list
RECURSIVE PositiveTail(_)
PositiveTail(pnls) ==
    IF pnls = << >> \/ pnls[Len(pnls)] <= 0 THEN 0
    ELSE 1 + PositiveTail(SubSeq(pnls, 1, Len(pnls) - 1))

\* C40: the streaks of the account change only when a trade is closed: the
\* losing streak is the number of most recent consecutive closed trades with
\* non-positive P&L and the winning streak the number of most recent
\* consecutive closed trades with a profit, whatever positions were opened.
C40_StreaksCountClosedTrades ==
    backtest.engine = "run" =>
        /\ backtest.account.losingStreak = NonPositiveTail(NetPLs(backtest.trades))
        /\ backtest.account.winningStreak = PositiveTail(NetPLs(backtest.trades))
====
